---- MODULE Spec2Model ----
(***************************************************************************)
(* net-watcher: the event store (internal/database) and its compactor,     *)
(* the legacy DNS pipeline (internal/capture, pkg/cli), the event          *)
(* publisher (internal/database, internal/web) and the watcher             *)
(* (pkg/watcher).                                                          *)
(*                                                                         *)
(* The network_events table is the set `rows` of NetworkEvent records.    *)
(* Times are integers in milliseconds counted from an instant aligned on   *)
(* an hour boundary; Go's zero time.Time is NoTime.  Every db.Create and   *)
(* db.Delete of a pair merge is one autocommitted statement and one step   *)
(* of the model.  Each part has a specification of its own: Spec for the   *)
(* compactor, SpecFlags for the command line of compact, SpecBatch for     *)
(* the batch appends, SpecSniffer and SpecServe for the DNS sniffer and    *)
(* the serve command, SpecPublisher for the publisher, SpecWatcher for     *)
(* the watcher and its session manager, SpecCapture for the watcher's      *)
(* capture loops and their cancellation, SpecHub for the web hub, its      *)
(* websocket clients and its lock.                                         *)
(***************************************************************************)
EXTENDS Integers, Sequences, FiniteSets, TLC

\* ------------------------------------------------------------------ bounds
MaxTCPRows == 3
MaxUDPRows == 2
MaxDNSRows == 4
MaxMixedRows == 2
MaxIfaceRows == 2
MaxTick == 2
MaxTCPTick == 3
MaxRuns == 2
MaxCreateErrs == 1
MaxChunks == 2
MaxDNSBatchLen == 3
MaxBatchCalls == 2
EventChanCap == 2
MaxPackets == 4
MaxStops == 2
batchSize == 2
BroadcastCap == 2
MaxClients == 2
MaxPublished == 4
MaxStrLen == 2
MaxWatcherPackets == 3
MaxAdvances == 2
SendCap == 1
MaxHubMessages == 3

\* ------------------------------------------------------- program constants
HourMs == 3600000
DayMs == 24 * HourMs
DNSPairMs == 5 * 1000
BatchSize == 100
NoTime == 0 - 1

EventTCPStart == "TCP_START"
EventTCPEnd == "TCP_END"
EventUDPStart == "UDP_START"
EventUDPEnd == "UDP_END"
EventDNS == "DNS"
EventTLSSNI == "TLS_SNI"
EventICMP == "ICMP"
EventTimeout == "TIMEOUT"
EventTCP == "TCP"
EventUDP == "UDP"
EventHourlySummary == "HOURLY"

\* ------------------------------------------------------------ NetworkEvent
\* The zero value of the struct; original_ids is the comma-joined id list,
\* kept as the sequence of the ids it joins.
NetworkEvent ==
  [id |-> 0, timestamp |-> NoTime, event_type |-> "", iface |-> "",
   ip_version |-> 0, src_ip |-> "", src_port |-> 0, dst_ip |-> "",
   dst_port |-> 0, dns_type |-> "", dns_query |-> "", dns_answers |-> "",
   dns_cnames |-> "", tls_sni |-> "", hostname |-> "", dns_age |-> 0,
   duration |-> 0, byte_count |-> 0, reason |-> "", end_time |-> NoTime,
   protocol |-> "", compacted |-> FALSE, original_ids |-> <<>>,
   event_count |-> 0]

\* r with the fields of the record f overwritten.
With(r, f) ==
  [k \in DOMAIN r |-> IF k \in DOMAIN f THEN f[k] ELSE r[k]]

\* ------------------------------------------------ workloads (input bounds)
\* A workload names the traffic the daemon records and the spacing of its
\* timestamps: 8 h for TCP flows and 12 h for UDP flows (the 24 h pairing
\* window), 2.5 s for DNS (the 5 s pairing window), 30 min for the mix
\* summarised per hour, 12 h for one TCP flow seen on two interfaces.
Profiles == {"tcp", "udp", "dns", "mixed", "ifaces"}

Unit(p) ==
  CASE p = "tcp" -> DayMs \div 3
    [] p = "udp" -> DayMs \div 2
    [] p = "ifaces" -> DayMs \div 2
    [] p = "dns" -> DNSPairMs \div 2
    [] OTHER -> HourMs \div 2

\* The last tick of the clock of a workload.
Ticks(p) == IF p = "tcp" THEN MaxTCPTick ELSE MaxTick

MaxRows(p) ==
  CASE p = "tcp" -> MaxTCPRows
    [] p = "udp" -> MaxUDPRows
    [] p = "dns" -> MaxDNSRows
    [] p = "ifaces" -> MaxIfaceRows
    [] OTHER -> MaxMixedRows

Flows ==
  { [src_ip |-> "10.0.0.1", src_port |-> 40000, dst_ip |-> "8.8.8.8",
     dst_port |-> 443, hostname |-> "dns.google"],
    [src_ip |-> "10.0.0.2", src_port |-> 40000, dst_ip |-> "8.8.8.8",
     dst_port |-> 443, hostname |-> ""] }

Flow1 ==
  CHOOSE f \in Flows : f.src_ip = "10.0.0.1"

Queries == {"api.x", "example.com"}

\* The events the session manager may hand to InsertEvent at time t.
StartEvents(type, t) ==
  { With(NetworkEvent, f) : f \in
      { [timestamp |-> t, event_type |-> type, iface |-> "eth0",
         ip_version |-> 4, src_ip |-> k.src_ip, src_port |-> k.src_port,
         dst_ip |-> k.dst_ip, dst_port |-> k.dst_port,
         hostname |-> k.hostname,
         protocol |-> IF type = EventUDPStart THEN "HTTPS/QUIC" ELSE ""]
        : k \in Flows } }

\* An END of the first flow reports a flow first seen at time 0, an END of
\* the second a flow of one packet.
EndEvents(type, reason, t) ==
  { With(NetworkEvent, f) : f \in
      { [timestamp |-> t, event_type |-> type, iface |-> "eth0",
         ip_version |-> 4, src_ip |-> k.src_ip, src_port |-> k.src_port,
         dst_ip |-> k.dst_ip, dst_port |-> k.dst_port,
         duration |-> IF k = Flow1 THEN t ELSE 0,
         byte_count |-> IF k = Flow1 THEN 1500 ELSE 60, reason |-> reason]
        : k \in Flows } }

DNSEvents(t) ==
  { With(NetworkEvent, f) : f \in
      { [timestamp |-> t, event_type |-> EventDNS, iface |-> "eth0",
         ip_version |-> 4, src_ip |-> "192.168.1.2", src_port |-> 53001,
         dst_ip |-> "1.1.1.1", dst_port |-> 53, dns_type |-> "QUERY",
         dns_query |-> q] : q \in Queries }
      \cup
      { [timestamp |-> t, event_type |-> EventDNS, iface |-> "eth0",
         ip_version |-> 4, src_ip |-> "1.1.1.1", src_port |-> 53,
         dst_ip |-> "192.168.1.2", dst_port |-> 53001,
         dns_type |-> "RESPONSE", dns_query |-> q,
         dns_answers |-> "93.184.216.34", dns_cnames |-> "cdn." \o q]
        : q \in Queries } }

MixedEvents(t) ==
  { With(NetworkEvent, f) : f \in
      { [timestamp |-> t, event_type |-> type, iface |-> "eth0",
         ip_version |-> 4, src_ip |-> Flow1.src_ip,
         src_port |-> Flow1.src_port, dst_ip |-> Flow1.dst_ip,
         dst_port |-> Flow1.dst_port]
        : type \in {EventTCPStart, EventUDPStart, EventDNS, EventTLSSNI,
                    EventICMP, EventTimeout} }
      \cup
      { [timestamp |-> t, event_type |-> EventICMP, iface |-> "eth1",
         ip_version |-> 6, src_ip |-> "fe80::1", dst_ip |-> "fe80::2"] } }

\* The packets of one connection as a host with two capture interfaces
\* records them: the same 4-tuple on either interface.
IfaceEvents(t) ==
  { With(NetworkEvent, f) : f \in
      { [timestamp |-> t, event_type |-> type, iface |-> i,
         ip_version |-> 4, src_ip |-> Flow1.src_ip,
         src_port |-> Flow1.src_port, dst_ip |-> Flow1.dst_ip,
         dst_port |-> Flow1.dst_port,
         reason |-> IF type = EventTCPEnd THEN "FIN" ELSE ""]
        : type \in {EventTCPStart, EventTCPEnd}, i \in {"eth0", "eth1"} } }

NewEvents(p, t) ==
  CASE p = "tcp" ->
         StartEvents(EventTCPStart, t)
           \cup EndEvents(EventTCPEnd, "FIN", t)
           \cup EndEvents(EventTimeout, "TIMEOUT", t)
    [] p = "udp" ->
         StartEvents(EventUDPStart, t)
           \cup EndEvents(EventUDPEnd, "", t)
    [] p = "dns" -> DNSEvents(t)
    [] p = "ifaces" -> IfaceEvents(t)
    [] OTHER -> MixedEvents(t)

\* ------------------------------------------------------------------- state
VARIABLES
  profile,     \* the workload of this run of the model
  now,         \* the clock tick of the most recent append
  appended,    \* number of events appended so far
  rows,        \* the network_events table
  nextId,      \* the table's AUTOINCREMENT sequence
  pc,          \* position of the compact command
  args,        \* olderThan, dedupeWindow, hourlySummary, dryRun
  pending,     \* rows of the current loop's result set not yet visited
  start,       \* the loop's current START / QUERY row
  endEvent,    \* the END / RESPONSE row found for it
  hours,       \* buckets of CreateHourlySummary not yet visited
  hour,        \* the loop's current (hour, interface, ip_version)
  stats,       \* CompactStats
  summaries,   \* CreateHourlySummary's count
  runs,        \* compact commands started
  createErrs,  \* db.Create calls of the compactor that returned an error
  runStart,    \* the table when the current command opened it
  phaseStart,  \* the table when the current phase began
  phases,      \* the phases the current run has entered, in order
  lastRun,     \* arguments and result of the last db.Compact that returned
  repeat,      \* the current command repeats lastRun on its result
  dnsEvents,   \* the legacy dns_events table, in rowid order
  bfn,         \* the batch append being executed
  bpc,         \* its position
  events,      \* its argument
  bnext,       \* index of the next event to be written
  txRows,      \* rows written in the open transaction, not yet committed
  berr,        \* what the call returned
  bstart,      \* both tables when the call began
  bcalls,      \* batch appends called
  eventChan,   \* DNSSniffer.eventChan: the events queued for the writer
  chanClosed,  \* close(d.eventChan) has run
  handleClosed, \* d.handle.Close() has run
  captured,    \* DNS queries parsed so far; the k-th one is event k
  inFlight,    \* the event processPackets has parsed and not yet sent, or 0
  droppedEvents, \* events the full channel made processPackets drop
  sniffPc,     \* position of the processPackets goroutine
  received,    \* events taken from the channel
  stopCalls,   \* calls of DNSSniffer.Stop
  fault,       \* the run-time panic that ended the process, or ""
  batch,       \* Serve's batch slice
  servePc,     \* position of Serve
  finalFlushes, \* batch inserts issued by Serve on its way out
  failedEvents, \* the events of the batches whose insert returned an error
  globalPublisher, \* database.globalPublisher: a hub, or "nil"
  clients,     \* per hub, the number of entries of Hub.clients
  broadcast,   \* per hub, the messages queued on Hub.broadcast
  published,   \* calls of database.PublishEvent; the k-th publishes event k
  ppc,         \* position of the caller of PublishEvent
  pcall,       \* the hub the call was dispatched to and its message
  lastCall,    \* the last call that returned: what it found and what it left
  flagsValid,  \* --older-than and --dedupe-window of the command are durations
  cmdErr,      \* the error runCompact returned, or ""
  ctxDone,     \* the context of Watcher.Run is cancelled
  runPc,       \* position of Watcher.Run
  sniffers,    \* per interface, the state of its sniffInterface goroutine
  monitors,    \* per interface, the state of its monitorDrops goroutine
  smStopped,   \* SessionManager.Stop has run
  dbClosed,    \* w.db.Close() has run
  tcp_flows,   \* SessionManager: per flow-key, the TCP flow or NoFlow
  udp_flows,   \* SessionManager: per flow-key, the UDP flow or NoFlow
  emitted,     \* per flow-key, the events emitted, in order
  wnow,        \* the clock of the watcher, in milliseconds
  advances,    \* steps of that clock
  packets,     \* packets the sniffers have processed
  lateCalls,   \* calls into the session manager after the store was closed
  lastFrame,   \* the frame processPacket handled last and the calls it made
  hubClients,  \* the keys of Hub.clients of the hub of the web server
  hubBroadcast, \* the messages queued on its Hub.broadcast
  hubPublished, \* messages its Hub.PublishEvent has marshalled
  send,        \* per client, the messages buffered on Client.send
  sendCloses,  \* per client, the close(client.send) calls executed
  pump,        \* per client, how far ServeWs and readPump have got
  hubPc,       \* position of Hub.Run
  message,     \* the message Hub.Run is broadcasting
  ranging,     \* the clients its range loop has still to visit
  readers,     \* the callers of ClientCount that hold the read lock
  hubFault,    \* the run-time panic that ended the web server, or ""
  lastWrite,   \* the lock Hub.Run held, and the readers there were, at
               \* its last insert into or delete from Hub.clients
  roomy,       \* the clients that had buffer room when the broadcast began
  got          \* the clients the broadcast was sent to

batchVars ==
  <<dnsEvents, bfn, bpc, events, bnext, txRows, berr, bstart, bcalls>>

snifferVars ==
  <<eventChan, chanClosed, handleClosed, captured, inFlight, droppedEvents,
    sniffPc, received, stopCalls, fault>>

serveVars == <<batch, servePc, finalFlushes, failedEvents>>

publisherVars ==
  <<globalPublisher, clients, broadcast, published, ppc, pcall, lastCall>>

flagVars == <<flagsValid, cmdErr>>

sessionVars == <<tcp_flows, udp_flows, emitted>>

watcherVars ==
  <<ctxDone, runPc, sniffers, monitors, smStopped, dbClosed, sessionVars, wnow,
    advances, packets, lateCalls, lastFrame>>

hubVars ==
  <<hubClients, hubBroadcast, hubPublished, send, sendCloses, pump, hubPc,
    message, ranging, readers, hubFault, lastWrite, roomy, got>>

vars ==
  <<profile, now, appended, rows, nextId, pc, args, pending, start, endEvent,
    hours, hour, stats, summaries, runs, createErrs, runStart, phaseStart, phases,
    lastRun,
    repeat, batchVars, snifferVars, serveVars, publisherVars, flagVars,
    watcherVars, hubVars>>

\* What the compact command and the batch appends leave alone.
outsideCompact ==
  <<batchVars, snifferVars, serveVars, publisherVars, flagVars, watcherVars,
    hubVars>>
outsideBatch ==
  <<snifferVars, serveVars, publisherVars, flagVars, watcherVars, hubVars>>

storeVars == <<rows, nextId>>
inputVars == <<profile, now, appended>>
loopVars == <<pending, start, endEvent, hours, hour>>
histVars == <<runStart, phaseStart, phases, lastRun, repeat>>

CompactStats ==
  [TCPPairsCompacted |-> 0, UDPPairsCompacted |-> 0, DNSPairsCompacted |-> 0,
   DuplicatesRemoved |-> 0, OrphanedEndsRemoved |-> 0,
   TotalEventsRemoved |-> 0, TotalEventsCreated |-> 0]

NoArgs ==
  [olderThan |-> NoTime, dedupeWindow |-> 0, hourlySummary |-> FALSE,
   dryRun |-> FALSE]

NoRun == [args |-> NoArgs, result |-> {}, errs |-> 0]

NoHour == [hour |-> NoTime, iface |-> "", ip_version |-> 0]

\* The interfaces of the watcher.  Each carries one TCP and one UDP
\* conversation, so that a flow-key is an interface and a protocol.
Interfaces == {"eth0", "wlan0"}
FlowKeys == Interfaces \X {"tcp", "udp", "icmp"}

NoFlow ==
  [known |-> FALSE, first_seen |-> 0, last_seen |-> 0, bytes |-> 0,
   sni |-> FALSE]

\* The hubs NewHub can have made.
Hubs == {"hub1", "hub2"}

NoCall == [pub |-> "nil", data |-> 0]

NoFrame ==
  [err |-> FALSE, ip |-> "", layer |-> "", calls |-> <<>>, marked |-> FALSE,
   handled |-> FALSE]

\* The websocket clients of the web server's hub, and the goroutines that
\* call its PublishEvent: the watcher's insert path and the hub's pollLoop.
WsClients == {"c1", "c2"}
Callers == {"watcher", "pollLoop"}

NoWrite == [lock |-> "", readers |-> {}]

NoLastCall ==
  [pub |-> "nil", data |-> 0, outcome |-> "", before |-> [h \in Hubs |-> <<>>],
   after |-> [h \in Hubs |-> <<>>]]

Init ==
  /\ profile \in Profiles
  /\ now = 0
  /\ appended = 0
  /\ rows = {}
  /\ nextId = 1
  /\ pc = "idle"
  /\ args = NoArgs
  /\ pending = {}
  /\ start = NetworkEvent
  /\ endEvent = NetworkEvent
  /\ hours = {}
  /\ hour = NoHour
  /\ stats = CompactStats
  /\ summaries = 0
  /\ runs = 0
  /\ createErrs = 0
  /\ runStart = {}
  /\ phaseStart = {}
  /\ phases = <<>>
  /\ lastRun = NoRun
  /\ repeat = FALSE
  /\ dnsEvents = <<>>
  /\ bfn = ""
  /\ bpc = "idle"
  /\ events = <<>>
  /\ bnext = 1
  /\ txRows = <<>>
  /\ berr = ""
  /\ bstart = [rows |-> {}, dnsEvents |-> <<>>]
  /\ bcalls = 0
  /\ eventChan = <<>>
  /\ chanClosed = FALSE
  /\ handleClosed = FALSE
  /\ captured = 0
  /\ inFlight = 0
  /\ droppedEvents = {}
  /\ sniffPc = "running"
  /\ received = 0
  /\ stopCalls = 0
  /\ fault = ""
  /\ batch = <<>>
  /\ servePc = "loop"
  /\ finalFlushes = 0
  /\ failedEvents = {}
  /\ globalPublisher = "nil"
  /\ clients = [h \in Hubs |-> 0]
  /\ broadcast = [h \in Hubs |-> <<>>]
  /\ published = 0
  /\ ppc = "idle"
  /\ pcall = NoCall
  /\ lastCall = NoLastCall
  /\ flagsValid = TRUE
  /\ cmdErr = ""
  /\ ctxDone = FALSE
  /\ runPc = "waiting"
  /\ sniffers = [i \in Interfaces |-> "running"]
  /\ monitors = [i \in Interfaces |-> "running"]
  /\ smStopped = FALSE
  /\ dbClosed = FALSE
  /\ tcp_flows = [i \in Interfaces |-> NoFlow]
  /\ udp_flows = [i \in Interfaces |-> NoFlow]
  /\ emitted = [k \in FlowKeys |-> <<>>]
  /\ wnow = 0
  /\ advances = 0
  /\ packets = 0
  /\ lateCalls = 0
  /\ lastFrame = NoFrame
  /\ hubClients = {}
  /\ hubBroadcast = <<>>
  /\ hubPublished = 0
  /\ send = [c \in WsClients |-> <<>>]
  /\ sendCloses = [c \in WsClients |-> 0]
  /\ pump = [c \in WsClients |-> "none"]
  /\ hubPc = "select"
  /\ message = 0
  /\ ranging = {}
  /\ readers = {}
  /\ hubFault = ""
  /\ lastWrite = NoWrite
  /\ roomy = {}
  /\ got = {}

\* ---------------------------------------------------------------- the store
IdsOfRows(R) == {r.id : r \in R}

\* Faulty variant of Create: the row gets the id after the highest one in
\* the table, as a rowid without AUTOINCREMENT does.
CreateAfterHighest(R, e, id) ==
  R \cup {With(e, [id |-> IF R = {} THEN 1
                         ELSE 1 + CHOOSE m \in IdsOfRows(R) :
                                    \A o \in IdsOfRows(R) : o <= m])}

\* db.Create: the row gets the next id of the AUTOINCREMENT sequence.
Create(R, e, id) == R \cup {With(e, [id |-> id])}

\* Faulty variant of Delete: the statement fails and the row stays.
DeleteNothing(R, row) == R

\* db.Delete(&row): DELETE ... WHERE id = row.ID.
Delete(R, row) == {r \in R : r.id # row.id}

\* The first event of a workload is on the first flow or query (the flows
\* and the queries are interchangeable).
FirstEvents(p, t) ==
  {e \in NewEvents(p, t) : e.src_ip # "10.0.0.2" /\ e.dns_query # "example.com"}

\* InsertEvent: the daemon appends one event, stamped with the current time.
\* A compact command that has finished is gone, and its locals with it.
InsertEvent ==
  /\ pc \in {"idle", "done"}
  /\ appended < MaxRows(profile)
  /\ \E t \in now..Ticks(profile) :
       \E e \in IF appended = 0 THEN FirstEvents(profile, t * Unit(profile))
                 ELSE NewEvents(profile, t * Unit(profile)) :
         /\ rows' = Create(rows, e, nextId)
         /\ now' = t
  /\ nextId' = nextId + 1
  /\ appended' = appended + 1
  /\ pc' = "idle"
  /\ args' = NoArgs
  /\ stats' = CompactStats
  /\ summaries' = 0
  /\ runStart' = {}
  /\ phaseStart' = {}
  /\ phases' = <<>>
  /\ lastRun' = NoRun
  /\ repeat' = FALSE
  /\ UNCHANGED <<profile, loopVars, runs, createErrs>>
  /\ UNCHANGED outsideCompact

\* --------------------------------------------------------- compact command
\* The arguments the command is run with: the cutoff on a tick, the dedupe
\* window off or two ticks wide.
OlderThans(p) == {Unit(p), (Ticks(p) + 1) * Unit(p)}
DedupeWindows(p) == IF p = "dns" THEN {0, 2 * Unit(p)} ELSE {0}
HourlySummaries(p) == IF p \in {"tcp", "mixed"} THEN BOOLEAN ELSE {FALSE}

\* A command started right after another repeats its arguments; a command
\* started after an append has any.
CompactArgs(p, atPc, last) ==
  IF atPc = "done" THEN {last}
  ELSE [olderThan : OlderThans(p), dedupeWindow : DedupeWindows(p),
        hourlySummary : HourlySummaries(p), dryRun : BOOLEAN]

\* ORDER BY timestamp ASC ... First: the earliest row, the lowest id on a tie.
First(S) ==
  CHOOSE e \in S :
    \A o \in S : \/ e.timestamp < o.timestamp
                 \/ (e.timestamp = o.timestamp /\ e.id <= o.id)

\* The next row of a result set in rowid order, the order in which SQLite
\* returns the rows of the compactor's unordered SELECTs.
NextRow(S) == CHOOSE r \in S : \A o \in S : r.id <= o.id

TCPStartEvents(R, olderThan) ==
  {r \in R : /\ r.event_type = EventTCPStart
             /\ r.timestamp < olderThan
             /\ r.compacted = FALSE}

\* Faulty variant of IsDryRun: the flag is not looked at.
NeverDryRun(a) == FALSE

\* runCompact's branch on --dry-run.
IsDryRun(a) == a.dryRun

\* runCompact with --dry-run: showCompactionPreview runs COUNT queries only
\* and the command returns.
\* runCompact without it: db.Compact is entered and compactTCP selects its
\* TCP_START rows.
RunCompact ==
  /\ pc \in {"idle", "done"}
  /\ runs < MaxRuns
  /\ \E a \in CompactArgs(profile, pc, args) :
       /\ args' = a
       /\ IF IsDryRun(a)
          THEN /\ pc' = "done"
               /\ pending' = {}
               /\ repeat' = FALSE
          ELSE /\ pc' = "tcp_loop"
               /\ pending' = TCPStartEvents(rows, a.olderThan)
               /\ repeat' = (/\ pc = "done"
                             /\ lastRun.args = a
                             /\ lastRun.result = rows
                             /\ lastRun.errs = createErrs)
  /\ runs' = runs + 1
  /\ runStart' = rows
  /\ phaseStart' = rows
  /\ phases' = IF pc' = "tcp_loop" THEN <<"compactTCP">> ELSE <<>>
  /\ stats' = CompactStats
  /\ summaries' = 0
  /\ UNCHANGED <<inputVars, storeVars, start, endEvent, hours, hour,
                 createErrs, lastRun>>
  /\ UNCHANGED outsideCompact

\* ---- the command line of compact
\* A flag value is a sequence of characters.
Chars == {"0", "1", "h", "d", "x"}

RECURSIVE Strings(_)
Strings(n) ==
  IF n = 0 THEN {<<>>}
  ELSE Strings(n - 1)
         \cup {Append(s, c) : s \in {t \in Strings(n - 1) : Len(t) = n - 1},
                              c \in Chars}

DigitValue(c) ==
  CASE c = "0" -> 0 [] c = "1" -> 1 [] c = "2" -> 2 [] c = "3" -> 3
    [] c = "4" -> 4 [] c = "5" -> 5 [] c = "6" -> 6 [] c = "7" -> 7
    [] c = "8" -> 8 [] c = "9" -> 9 [] OTHER -> 0 - 1

IsDigit(c) == DigitValue(c) >= 0

\* The decimal number a string begins with (0 if it begins with none) and
\* what follows it.
RECURSIVE ScanInt(_, _)
ScanInt(s, acc) ==
  IF s = <<>> \/ ~IsDigit(Head(s))
  THEN [value |-> acc, rest |-> s]
  ELSE ScanInt(Tail(s), acc * 10 + DigitValue(Head(s)))

\* The characters a string begins with that are not digits.
RECURSIVE ScanUnit(_)
ScanUnit(s) ==
  IF s = <<>> \/ IsDigit(Head(s)) THEN <<>>
  ELSE <<Head(s)>> \o ScanUnit(Tail(s))

\* The units of time.ParseDuration that are whole milliseconds (0: none).
UnitMs(u) ==
  CASE u = <<"h">> -> HourMs
    [] u = <<"m">> -> 60 * 1000
    [] u = <<"s">> -> 1000
    [] u = <<"m", "s">> -> 1
    [] OTHER -> 0

\* time.ParseDuration on unsigned strings without fractions: "0", or one
\* or more groups of a decimal number and a unit.
RECURSIVE ParseGroups(_, _)
ParseGroups(s, acc) ==
  IF s = <<>> THEN [err |-> FALSE, d |-> acc]
  ELSE LET n == ScanInt(s, 0)
           u == ScanUnit(n.rest)
       IN IF n.rest = s \/ UnitMs(u) = 0
          THEN [err |-> TRUE, d |-> 0]
          ELSE ParseGroups(SubSeq(n.rest, Len(u) + 1, Len(n.rest)),
                           acc + n.value * UnitMs(u))

ParseDuration(s) ==
  IF s = <<"0">> THEN [err |-> FALSE, d |-> 0]
  ELSE IF s = <<>> THEN [err |-> TRUE, d |-> 0]
  ELSE ParseGroups(s, 0)

HasSuffix(s, c) == Len(s) > 0 /\ s[Len(s)] = c

\* parseDuration: a string ending in "d" is scanned with
\* fmt.Sscanf(s, "%dd", &days), whose error is ignored, and is that many
\* days; any other string goes to time.ParseDuration.
parseDuration(s) ==
  IF HasSuffix(s, "d")
  THEN [err |-> FALSE, d |-> ScanInt(s, 0).value * DayMs]
  ELSE ParseDuration(s)

\* The dedupe window of runCompact: "0" and "" switch it off, any other
\* string goes to time.ParseDuration.
parseDedupeWindow(s) ==
  IF s # <<"0">> /\ s # <<>> THEN ParseDuration(s)
  ELSE [err |-> FALSE, d |-> 0]

\* The durations the flags are documented to take: what time.ParseDuration
\* accepts and, for --older-than, a whole number of days ("7d"); "0" or
\* nothing for a dedupe window that is switched off.
IsDays(s) ==
  /\ Len(s) >= 2
  /\ s[Len(s)] = "d"
  /\ \A i \in 1..(Len(s) - 1) : IsDigit(s[i])

IsOlderThan(s) == ~ParseDuration(s).err \/ IsDays(s)
IsDedupeWindow(s) == s \in {<<"0">>, <<>>} \/ ~ParseDuration(s).err

\* The values of --older-than and of --dedupe-window tried: every string
\* of up to MaxStrLen characters, with what runCompact parses it to.
OlderThanFlags ==
  {[parsed |-> parseDuration(s), valid |-> IsOlderThan(s)] :
     s \in Strings(MaxStrLen)}

DedupeWindowFlags ==
  {[parsed |-> parseDedupeWindow(s), valid |-> IsDedupeWindow(s)] :
     s \in Strings(MaxStrLen)}

\* time.Now() of the command: every row was appended before it.
CommandTime(p) == (Ticks(p) + 2) * Unit(p)

outsideFlags ==
  <<batchVars, snifferVars, serveVars, publisherVars, watcherVars, hubVars>>

\* runCompact from its command line: the two flags are parsed, and a flag
\* that is refused ends the command before database.New; otherwise the
\* command goes on as RunCompact does, with the cutoff time.Now() less
\* --older-than.
RunCompactFlags ==
  /\ pc \in {"idle", "done"}
  /\ runs < MaxRuns
  /\ \E o \in OlderThanFlags, w \in DedupeWindowFlags, dryRun \in BOOLEAN :
       LET olderThan == o.parsed
           dedupeWindow == w.parsed
           a == [olderThan |-> CommandTime(profile) - olderThan.d,
                 dedupeWindow |-> dedupeWindow.d, hourlySummary |-> FALSE,
                 dryRun |-> dryRun]
       IN /\ flagsValid' = (o.valid /\ w.valid)
          /\ IF olderThan.err \/ dedupeWindow.err
             THEN /\ cmdErr' = IF olderThan.err
                               THEN "invalid older-than duration"
                               ELSE "invalid dedupe-window duration"
                  /\ args' = NoArgs
                  /\ pc' = "done"
                  /\ pending' = {}
             ELSE /\ cmdErr' = ""
                  /\ args' = a
                  /\ IF IsDryRun(a)
                     THEN pc' = "done" /\ pending' = {}
                     ELSE /\ pc' = "tcp_loop"
                          /\ pending' = TCPStartEvents(rows, a.olderThan)
  /\ repeat' = FALSE
  /\ runs' = runs + 1
  /\ runStart' = rows
  /\ phaseStart' = rows
  /\ phases' = IF pc' = "tcp_loop" THEN <<"compactTCP">> ELSE <<>>
  /\ stats' = CompactStats
  /\ summaries' = 0
  /\ UNCHANGED <<inputVars, storeVars, start, endEvent, hours, hour,
                 createErrs, lastRun>>
  /\ UNCHANGED outsideFlags

\* Same (src_ip, src_port, dst_ip, dst_port).
SameTuple(a, b) ==
  /\ a.src_ip = b.src_ip
  /\ a.src_port = b.src_port
  /\ a.dst_ip = b.dst_ip
  /\ a.dst_port = b.dst_port

\* ---- 1. compactTCP
\* Faulty variant of TCPEndEvents: an END before the START is taken too.
TCPEndEventsAnyOrder(R, s) ==
  {e \in R : /\ e.event_type \in {EventTCPEnd, EventTimeout}
             /\ SameTuple(e, s)
             /\ e.timestamp < s.timestamp + DayMs}

TCPEndEvents(R, s) ==
  {e \in R : /\ e.event_type \in {EventTCPEnd, EventTimeout}
             /\ SameTuple(e, s)
             /\ e.timestamp > s.timestamp
             /\ e.timestamp < s.timestamp + DayMs}

CompactedTCP(s, e) ==
  With(NetworkEvent,
       [timestamp |-> s.timestamp, end_time |-> e.timestamp,
        event_type |-> EventTCP, iface |-> s.iface,
        ip_version |-> s.ip_version, src_ip |-> s.src_ip,
        src_port |-> s.src_port, dst_ip |-> s.dst_ip,
        dst_port |-> s.dst_port, hostname |-> s.hostname,
        dns_age |-> s.dns_age, duration |-> e.duration,
        byte_count |-> e.byte_count, reason |-> e.reason,
        compacted |-> TRUE, original_ids |-> <<s.id, e.id>>])

\* One iteration up to db.Create: no END found, or the insert fails
\* (continue), or the merged row is written.
CompactTCPCreate ==
  /\ pc = "tcp_loop"
  /\ pending # {}
  /\ LET s == NextRow(pending)
     IN
       /\ pending' = pending \ {s}
       /\ LET ends == TCPEndEvents(rows, s)
          IN \/ /\ ends = {}
                /\ UNCHANGED <<storeVars, start, endEvent, pc, createErrs>>
             \/ /\ ends # {}
                /\ createErrs < MaxCreateErrs
                /\ createErrs' = createErrs + 1
                /\ UNCHANGED <<storeVars, start, endEvent, pc>>
             \/ /\ ends # {}
                /\ rows' = Create(rows, CompactedTCP(s, First(ends)), nextId)
                /\ nextId' = nextId + 1
                /\ start' = s
                /\ endEvent' = First(ends)
                /\ pc' = "tcp_del_start"
                /\ UNCHANGED createErrs
  /\ UNCHANGED <<inputVars, args, hours, hour, stats, summaries, runs,
                 histVars>>
  /\ UNCHANGED outsideCompact

CompactTCPDeleteStart ==
  /\ pc = "tcp_del_start"
  /\ rows' = Delete(rows, start)
  /\ pc' = "tcp_del_end"
  /\ UNCHANGED <<inputVars, nextId, args, loopVars, stats, summaries, runs,
                 createErrs, histVars>>
  /\ UNCHANGED outsideCompact

\* Faulty variant of CompactTCPDeleteEnd: a merged pair counts as one row
\* removed.
CompactTCPDeleteEndCountsOne ==
  /\ pc = "tcp_del_end"
  /\ rows' = Delete(rows, endEvent)
  /\ stats' = [stats EXCEPT !.TCPPairsCompacted = @ + 1,
                            !.TotalEventsRemoved = @ + 1,
                            !.TotalEventsCreated = @ + 1]
  /\ start' = NetworkEvent
  /\ endEvent' = NetworkEvent
  /\ pc' = "tcp_loop"
  /\ UNCHANGED <<inputVars, nextId, args, pending, hours, hour, summaries, runs,
                 createErrs, histVars>>
  /\ UNCHANGED outsideCompact

CompactTCPDeleteEnd ==
  /\ pc = "tcp_del_end"
  /\ rows' = Delete(rows, endEvent)
  /\ stats' = [stats EXCEPT !.TCPPairsCompacted = @ + 1,
                            !.TotalEventsRemoved = @ + 2,
                            !.TotalEventsCreated = @ + 1]
  /\ start' = NetworkEvent
  /\ endEvent' = NetworkEvent
  /\ pc' = "tcp_loop"
  /\ UNCHANGED <<inputVars, nextId, args, pending, hours, hour, summaries, runs,
                 createErrs, histVars>>
  /\ UNCHANGED outsideCompact

\* ---- 2. compactUDP
UDPStartEvents(R, olderThan) ==
  {r \in R : /\ r.event_type = EventUDPStart
             /\ r.timestamp < olderThan
             /\ r.compacted = FALSE}

UDPEndEvents(R, s) ==
  {e \in R : /\ e.event_type = EventUDPEnd
             /\ SameTuple(e, s)
             /\ e.timestamp > s.timestamp
             /\ e.timestamp < s.timestamp + DayMs}

\* Faulty variant of CompactedUDP: the ids are recorded END first.
CompactedUDPSwappedIds(s, e) ==
  With(NetworkEvent,
       [timestamp |-> s.timestamp, end_time |-> e.timestamp,
        event_type |-> EventUDP, iface |-> s.iface,
        ip_version |-> s.ip_version, src_ip |-> s.src_ip,
        src_port |-> s.src_port, dst_ip |-> s.dst_ip,
        dst_port |-> s.dst_port, protocol |-> s.protocol,
        duration |-> e.duration, byte_count |-> e.byte_count,
        compacted |-> TRUE, original_ids |-> <<e.id, s.id>>])

CompactedUDP(s, e) ==
  With(NetworkEvent,
       [timestamp |-> s.timestamp, end_time |-> e.timestamp,
        event_type |-> EventUDP, iface |-> s.iface,
        ip_version |-> s.ip_version, src_ip |-> s.src_ip,
        src_port |-> s.src_port, dst_ip |-> s.dst_ip,
        dst_port |-> s.dst_port, protocol |-> s.protocol,
        duration |-> e.duration, byte_count |-> e.byte_count,
        compacted |-> TRUE, original_ids |-> <<s.id, e.id>>])

CompactUDPSelect ==
  /\ pc = "tcp_loop"
  /\ pending = {}
  /\ pending' = UDPStartEvents(rows, args.olderThan)
  /\ phaseStart' = rows
  /\ phases' = Append(phases, "compactUDP")
  /\ pc' = "udp_loop"
  /\ UNCHANGED <<inputVars, storeVars, args, start, endEvent, hours, hour, stats,
                 summaries, runs, createErrs, runStart, lastRun, repeat>>
  /\ UNCHANGED outsideCompact

CompactUDPCreate ==
  /\ pc = "udp_loop"
  /\ pending # {}
  /\ LET s == NextRow(pending)
     IN
       /\ pending' = pending \ {s}
       /\ LET ends == UDPEndEvents(rows, s)
          IN \/ /\ ends = {}
                /\ UNCHANGED <<storeVars, start, endEvent, pc, createErrs>>
             \/ /\ ends # {}
                /\ createErrs < MaxCreateErrs
                /\ createErrs' = createErrs + 1
                /\ UNCHANGED <<storeVars, start, endEvent, pc>>
             \/ /\ ends # {}
                /\ rows' = Create(rows, CompactedUDP(s, First(ends)), nextId)
                /\ nextId' = nextId + 1
                /\ start' = s
                /\ endEvent' = First(ends)
                /\ pc' = "udp_del_start"
                /\ UNCHANGED createErrs
  /\ UNCHANGED <<inputVars, args, hours, hour, stats, summaries, runs,
                 histVars>>
  /\ UNCHANGED outsideCompact

CompactUDPDeleteStart ==
  /\ pc = "udp_del_start"
  /\ rows' = Delete(rows, start)
  /\ pc' = "udp_del_end"
  /\ UNCHANGED <<inputVars, nextId, args, loopVars, stats, summaries, runs,
                 createErrs, histVars>>
  /\ UNCHANGED outsideCompact

CompactUDPDeleteEnd ==
  /\ pc = "udp_del_end"
  /\ rows' = Delete(rows, endEvent)
  /\ stats' = [stats EXCEPT !.UDPPairsCompacted = @ + 1,
                            !.TotalEventsRemoved = @ + 2,
                            !.TotalEventsCreated = @ + 1]
  /\ start' = NetworkEvent
  /\ endEvent' = NetworkEvent
  /\ pc' = "udp_loop"
  /\ UNCHANGED <<inputVars, nextId, args, pending, hours, hour, summaries, runs,
                 createErrs, histVars>>
  /\ UNCHANGED outsideCompact

\* ---- 3. compactDNS
DNSQueryEvents(R, olderThan) ==
  {r \in R : /\ r.event_type = EventDNS
             /\ r.dns_type = "QUERY"
             /\ r.timestamp < olderThan
             /\ r.compacted = FALSE}

\* Faulty variant of DNSResponseEvents: any row that is not a QUERY answers.
DNSResponseEventsAnyType(R, q) ==
  {e \in R : /\ e.event_type = EventDNS
             /\ e.dns_type # "QUERY"
             /\ e.dns_query = q.dns_query
             /\ e.timestamp > q.timestamp
             /\ e.timestamp < q.timestamp + DNSPairMs}

DNSResponseEvents(R, q) ==
  {e \in R : /\ e.event_type = EventDNS
             /\ e.dns_type = "RESPONSE"
             /\ e.dns_query = q.dns_query
             /\ e.timestamp > q.timestamp
             /\ e.timestamp < q.timestamp + DNSPairMs}

\* Faulty variant of CompactedDNS: the answers are taken from the QUERY.
CompactedDNSQueryAnswers(q, r) ==
  With(NetworkEvent,
       [timestamp |-> q.timestamp, end_time |-> r.timestamp,
        event_type |-> EventDNS, iface |-> q.iface,
        ip_version |-> q.ip_version, src_ip |-> q.src_ip,
        src_port |-> q.src_port, dst_ip |-> q.dst_ip,
        dst_port |-> q.dst_port, dns_type |-> "COMPLETE",
        dns_query |-> q.dns_query, dns_answers |-> q.dns_answers,
        dns_cnames |-> q.dns_cnames,
        duration |-> r.timestamp - q.timestamp,
        compacted |-> TRUE, original_ids |-> <<q.id, r.id>>])

CompactedDNS(q, r) ==
  With(NetworkEvent,
       [timestamp |-> q.timestamp, end_time |-> r.timestamp,
        event_type |-> EventDNS, iface |-> q.iface,
        ip_version |-> q.ip_version, src_ip |-> q.src_ip,
        src_port |-> q.src_port, dst_ip |-> q.dst_ip,
        dst_port |-> q.dst_port, dns_type |-> "COMPLETE",
        dns_query |-> q.dns_query, dns_answers |-> r.dns_answers,
        dns_cnames |-> r.dns_cnames,
        duration |-> r.timestamp - q.timestamp,
        compacted |-> TRUE, original_ids |-> <<q.id, r.id>>])

CompactDNSSelect ==
  /\ pc = "udp_loop"
  /\ pending = {}
  /\ pending' = DNSQueryEvents(rows, args.olderThan)
  /\ phaseStart' = rows
  /\ phases' = Append(phases, "compactDNS")
  /\ pc' = "dns_loop"
  /\ UNCHANGED <<inputVars, storeVars, args, start, endEvent, hours, hour, stats,
                 summaries, runs, createErrs, runStart, lastRun, repeat>>
  /\ UNCHANGED outsideCompact

CompactDNSCreate ==
  /\ pc = "dns_loop"
  /\ pending # {}
  /\ LET q == NextRow(pending)
     IN
       /\ pending' = pending \ {q}
       /\ LET resps == DNSResponseEvents(rows, q)
          IN \/ /\ resps = {}
                /\ UNCHANGED <<storeVars, start, endEvent, pc, createErrs>>
             \/ /\ resps # {}
                /\ createErrs < MaxCreateErrs
                /\ createErrs' = createErrs + 1
                /\ UNCHANGED <<storeVars, start, endEvent, pc>>
             \/ /\ resps # {}
                /\ rows' = Create(rows, CompactedDNS(q, First(resps)), nextId)
                /\ nextId' = nextId + 1
                /\ start' = q
                /\ endEvent' = First(resps)
                /\ pc' = "dns_del_start"
                /\ UNCHANGED createErrs
  /\ UNCHANGED <<inputVars, args, hours, hour, stats, summaries, runs,
                 histVars>>
  /\ UNCHANGED outsideCompact

CompactDNSDeleteQuery ==
  /\ pc = "dns_del_start"
  /\ rows' = Delete(rows, start)
  /\ pc' = "dns_del_end"
  /\ UNCHANGED <<inputVars, nextId, args, loopVars, stats, summaries, runs,
                 createErrs, histVars>>
  /\ UNCHANGED outsideCompact

CompactDNSDeleteResponse ==
  /\ pc = "dns_del_end"
  /\ rows' = Delete(rows, endEvent)
  /\ stats' = [stats EXCEPT !.DNSPairsCompacted = @ + 1,
                            !.TotalEventsRemoved = @ + 2,
                            !.TotalEventsCreated = @ + 1]
  /\ start' = NetworkEvent
  /\ endEvent' = NetworkEvent
  /\ pc' = "dns_loop"
  /\ UNCHANGED <<inputVars, nextId, args, pending, hours, hour, summaries, runs,
                 createErrs, histVars>>
  /\ UNCHANGED outsideCompact

\* ---- 4. deduplicateDNS
\* ORDER BY dns_query: the order of the query strings of the model.
QueryOrder(q) ==
  CASE q = "" -> 0
    [] q = "api.x" -> 1
    [] OTHER -> 2

DNSEventsBefore(R, olderThan) ==
  {r \in R : r.event_type = EventDNS /\ r.timestamp < olderThan}

\* The rows that may come next in ORDER BY dns_query, timestamp (rows equal
\* in both come in either order).
NextInOrder(S) ==
  {e \in S : \A o \in S :
     \/ QueryOrder(e.dns_query) < QueryOrder(o.dns_query)
     \/ /\ e.dns_query = o.dns_query
        /\ e.timestamp <= o.timestamp}

\* Faulty variant of IsDuplicate: a row exactly one window later is dropped.
IsDuplicateInclusive(e, lastQuery, lastTime, window) ==
  /\ e.dns_query = lastQuery
  /\ lastTime # NoTime
  /\ e.timestamp - lastTime <= window

\* e.DNSQuery == lastQuery && e.Timestamp.Sub(lastTime) < window; Sub from
\* the zero time saturates, so nothing is within a window of it.
IsDuplicate(e, lastQuery, lastTime, window) ==
  /\ e.dns_query = lastQuery
  /\ lastTime # NoTime
  /\ e.timestamp - lastTime < window

\* The toDelete lists the scan of S can build, as sets of ids.
RECURSIVE ToDelete(_, _, _, _)
ToDelete(S, lastQuery, lastTime, window) ==
  IF S = {} THEN {{}}
  ELSE UNION
    { IF IsDuplicate(e, lastQuery, lastTime, window)
      THEN {{e.id} \cup d : d \in ToDelete(S \ {e}, lastQuery, lastTime, window)}
      ELSE ToDelete(S \ {e}, e.dns_query, e.timestamp, window)
      : e \in NextInOrder(S) }

DeduplicateDNS ==
  /\ pc = "dns_loop"
  /\ pending = {}
  /\ args.dedupeWindow > 0
  /\ \E ids \in ToDelete(DNSEventsBefore(rows, args.olderThan), "", NoTime,
                         args.dedupeWindow) :
       /\ rows' = {r \in rows : r.id \notin ids}
       /\ stats' = IF ids = {} THEN stats
                   ELSE [stats EXCEPT
                           !.DuplicatesRemoved = Cardinality(ids),
                           !.TotalEventsRemoved = @ + Cardinality(ids)]
  /\ phaseStart' = rows
  /\ phases' = Append(phases, "deduplicateDNS")
  /\ pc' = "orphans"
  /\ UNCHANGED <<inputVars, nextId, args, loopVars, summaries, runs,
                 createErrs, runStart, lastRun, repeat>>
  /\ UNCHANGED outsideCompact

\* ---- 5. removeOrphanedEnds
\* Faulty variant of OrphanedEnds: a START at the END's own time counts.
OrphanedEndsNotLater(R, endType, startType, olderThan) ==
  {e \in R : /\ e.event_type = endType
             /\ e.timestamp < olderThan
             /\ ~ \E s \in R : /\ s.event_type = startType
                               /\ SameTuple(s, e)
                               /\ s.timestamp <= e.timestamp}

\* The rows one DELETE ... WHERE event_type = endType AND timestamp < ? AND
\* NOT EXISTS (an earlier startType row on the same 4-tuple) removes.
OrphanedEnds(R, endType, startType, olderThan) ==
  {e \in R : /\ e.event_type = endType
             /\ e.timestamp < olderThan
             /\ ~ \E s \in R : /\ s.event_type = startType
                               /\ SameTuple(s, e)
                               /\ s.timestamp < e.timestamp}

\* Both DELETEs, then calculateTransferStats (reads only), VACUUM and the
\* return of db.Compact.
RemoveOrphanedEnds ==
  /\ \/ pc = "orphans"
     \/ pc = "dns_loop" /\ pending = {} /\ args.dedupeWindow = 0
  /\ LET tcp == OrphanedEnds(rows, EventTCPEnd, EventTCPStart, args.olderThan)
         udp == OrphanedEnds(rows \ tcp, EventUDPEnd, EventUDPStart,
                             args.olderThan)
     IN /\ rows' = (rows \ tcp) \ udp
        /\ stats' = [stats EXCEPT
                       !.OrphanedEndsRemoved =
                          @ + Cardinality(tcp) + Cardinality(udp),
                       !.TotalEventsRemoved =
                          @ + Cardinality(tcp) + Cardinality(udp)]
        /\ lastRun' = [args |-> args, result |-> (rows \ tcp) \ udp,
                       errs |-> createErrs]
  /\ phaseStart' = rows
  /\ phases' = phases \o <<"removeOrphanedEnds", "VACUUM">>
  /\ pc' = "returned"
  /\ UNCHANGED <<inputVars, nextId, args, loopVars, summaries, runs,
                 createErrs, runStart, repeat>>
  /\ UNCHANGED outsideCompact

\* runCompact after db.Compact without --hourly-summary.
RunCompactReturn ==
  /\ pc = "returned"
  /\ ~ args.hourlySummary
  /\ pc' = "done"
  /\ UNCHANGED <<inputVars, storeVars, args, loopVars, stats, summaries, runs,
                 createErrs, histVars>>
  /\ UNCHANGED outsideCompact

\* ---- 6. CreateHourlySummary
\* strftime('%Y-%m-%d %H:00:00', timestamp), parsed back into a time.
HourOf(t) == (t \div HourMs) * HourMs

Bucket(r) ==
  [hour |-> HourOf(r.timestamp), iface |-> r.iface,
   ip_version |-> r.ip_version]

\* SELECT ... WHERE timestamp < ? AND event_type NOT IN (HOURLY, TCP)
\* GROUP BY hour, interface, ip_version.
HourlyBuckets(R, olderThan) ==
  {Bucket(r) : r \in
     {x \in R : /\ x.timestamp < olderThan
                /\ x.event_type \notin {EventHourlySummary, EventTCP}}}

\* event_type LIKE 'TCP%' / LIKE 'UDP%'.
LikeTCP(type) == type \in {EventTCPStart, EventTCPEnd, EventTCP}
LikeUDP(type) == type \in {EventUDPStart, EventUDPEnd, EventUDP}

InBucket(R, h) == {r \in R : Bucket(r) = h}

TCPCount(R, h) == Cardinality({r \in InBucket(R, h) : LikeTCP(r.event_type)})
UDPCount(R, h) == Cardinality({r \in InBucket(R, h) : LikeUDP(r.event_type)})
DNSCount(R, h) ==
  Cardinality({r \in InBucket(R, h) : r.event_type = EventDNS})
TLSCount(R, h) ==
  Cardinality({r \in InBucket(R, h) : r.event_type = EventTLSSNI})
ICMPCount(R, h) ==
  Cardinality({r \in InBucket(R, h) : r.event_type = EventICMP})

TotalCount(R, h) ==
  TCPCount(R, h) + UDPCount(R, h) + DNSCount(R, h) + TLSCount(R, h)
    + ICMPCount(R, h)

\* fmt.Sprintf("TCP:%d,UDP:%d,DNS:%d,TLS:%d,ICMP:%d", ...).
Breakdown(a, b, c, d, e) ==
  "TCP:" \o ToString(a) \o ",UDP:" \o ToString(b) \o ",DNS:" \o ToString(c)
    \o ",TLS:" \o ToString(d) \o ",ICMP:" \o ToString(e)

Summary(R, h) ==
  With(NetworkEvent,
       [timestamp |-> h.hour, event_type |-> EventHourlySummary,
        iface |-> h.iface, ip_version |-> h.ip_version,
        event_count |-> TotalCount(R, h),
        protocol |-> Breakdown(TCPCount(R, h), UDPCount(R, h), DNSCount(R, h),
                               TLSCount(R, h), ICMPCount(R, h)),
        compacted |-> TRUE])

\* DELETE ... WHERE hour, interface, ip_version match AND event_type != HOURLY.
WithoutBucket(R, h) ==
  {r \in R : ~ (Bucket(r) = h /\ r.event_type # EventHourlySummary)}

CreateHourlySummarySelect ==
  /\ pc = "returned"
  /\ args.hourlySummary
  /\ hours' = HourlyBuckets(rows, args.olderThan)
  /\ phaseStart' = rows
  /\ phases' = Append(phases, "CreateHourlySummary")
  /\ pc' = "hourly_loop"
  /\ UNCHANGED <<inputVars, storeVars, args, pending, start, endEvent, hour,
                 stats, summaries, runs, createErrs, runStart, lastRun,
                 repeat>>
  /\ UNCHANGED outsideCompact

\* One iteration up to db.Create: nothing counted, or the insert fails
\* (continue), or the summary row is written.
CreateHourlySummaryCreate ==
  /\ pc = "hourly_loop"
  /\ \E h \in hours :
       /\ hours' = hours \ {h}
       /\ \/ /\ TotalCount(rows, h) = 0
             /\ UNCHANGED <<storeVars, hour, pc, createErrs>>
          \/ /\ TotalCount(rows, h) # 0
             /\ createErrs < MaxCreateErrs
             /\ createErrs' = createErrs + 1
             /\ UNCHANGED <<storeVars, hour, pc>>
          \/ /\ TotalCount(rows, h) # 0
             /\ rows' = Create(rows, Summary(rows, h), nextId)
             /\ nextId' = nextId + 1
             /\ hour' = h
             /\ pc' = "hourly_delete"
             /\ UNCHANGED createErrs
  /\ UNCHANGED <<inputVars, args, pending, start, endEvent, stats, summaries,
                 runs, histVars>>
  /\ UNCHANGED outsideCompact

CreateHourlySummaryDelete ==
  /\ pc = "hourly_delete"
  /\ rows' = WithoutBucket(rows, hour)
  /\ summaries' = summaries + 1
  /\ hour' = NoHour
  /\ pc' = "hourly_loop"
  /\ UNCHANGED <<inputVars, nextId, args, pending, start, endEvent, hours,
                 stats, runs, createErrs, histVars>>
  /\ UNCHANGED outsideCompact

\* CreateHourlySummary and runCompact return.
CreateHourlySummaryReturn ==
  /\ pc = "hourly_loop"
  /\ hours = {}
  /\ pc' = "done"
  /\ UNCHANGED <<inputVars, storeVars, args, loopVars, stats, summaries, runs,
                 createErrs, histVars>>
  /\ UNCHANGED outsideCompact

\* ------------------------------------------------------------ batch appends
commandVars ==
  <<inputVars, pc, args, loopVars, stats, summaries, runs, createErrs,
    histVars>>

\* A row of the legacy dns_events table.
DNSEvent ==
  [timestamp |-> 0, source_ip |-> "192.168.1.2", dest_ip |-> "1.1.1.1",
   domain_name |-> "api.x", record_type |-> "A", interface |-> "eth0",
   packet_size |-> 64]

\* The i-th event of a batch handed to InsertBatch, to InsertDNSEventBatch.
BatchEvent(i) ==
  With(NetworkEvent,
       [timestamp |-> i, event_type |-> EventDNS, iface |-> "eth0",
        ip_version |-> 4, dns_type |-> "QUERY", dns_query |-> "api.x"])

DNSBatchEvent(i) == [DNSEvent EXCEPT !.timestamp = i]

\* The end of the chunk CreateInBatches writes from index i of n events.
ChunkEnd(i, n) == IF i + BatchSize - 1 > n THEN n ELSE i + BatchSize - 1

\* COMMIT of a transaction on network_events: the rows get the next ids.
CommitRows(R, tx, id) ==
  R \cup {With(tx[i], [id |-> id + i - 1]) : i \in 1..Len(tx)}

\* Faulty variant of Rollback: the rows written before the failure stay.
RollbackKeeps(committed, tx) == committed \o tx

\* The deferred tx.Rollback() of InsertDNSEventBatch.
Rollback(committed, tx) == committed

\* The batch sizes tried: none, one, and one less than, exactly and one
\* more than each whole number of chunks.
BatchLens ==
  {0, 1} \cup {k * BatchSize + d : k \in 1..MaxChunks, d \in {0 - 1, 0, 1}}

BatchCall(fn, es) ==
  /\ bpc \in {"idle", "returned"}
  /\ bcalls < MaxBatchCalls
  /\ bcalls' = bcalls + 1
  /\ bfn' = fn
  /\ events' = es
  /\ bnext' = 1
  /\ txRows' = <<>>
  /\ bstart' = [rows |-> rows, dnsEvents |-> dnsEvents]

\* InsertBatch: nothing to do for an empty slice; otherwise CreateInBatches
\* starts writing chunks of BatchSize rows inside one transaction.
InsertBatch ==
  /\ \E n \in BatchLens :
       BatchCall("InsertBatch", [i \in 1..n |-> BatchEvent(i)])
  /\ IF events' = <<>>
     THEN bpc' = "returned" /\ berr' = "nil"
     ELSE bpc' = "chunk" /\ berr' = ""
  /\ UNCHANGED outsideBatch
  /\ UNCHANGED <<commandVars, storeVars, dnsEvents>>

\* One chunk: a single multi-row INSERT, which writes all its rows or fails;
\* a failure ends the transaction with a rollback and is returned.
CreateInBatchesChunk ==
  /\ bpc = "chunk"
  /\ bnext <= Len(events)
  /\ \/ /\ txRows' = txRows \o SubSeq(events, bnext, ChunkEnd(bnext, Len(events)))
        /\ bnext' = ChunkEnd(bnext, Len(events)) + 1
        /\ UNCHANGED <<bpc, berr>>
     \/ /\ txRows' = <<>>
        /\ bpc' = "returned"
        /\ berr' = "error"
        /\ UNCHANGED bnext
  /\ UNCHANGED outsideBatch
  /\ UNCHANGED <<commandVars, storeVars, dnsEvents, bfn, events, bstart,
                 bcalls>>

\* All chunks written: the transaction commits, or the commit fails and
\* the transaction is rolled back.
CreateInBatchesCommit ==
  /\ bpc = "chunk"
  /\ bnext > Len(events)
  /\ \/ /\ rows' = CommitRows(rows, txRows, nextId)
        /\ nextId' = nextId + Len(txRows)
        /\ berr' = "nil"
     \/ /\ berr' = "error"
        /\ UNCHANGED storeVars
  /\ txRows' = <<>>
  /\ bpc' = "returned"
  /\ UNCHANGED outsideBatch
  /\ UNCHANGED <<commandVars, dnsEvents, bfn, events, bnext, bstart, bcalls>>

\* InsertDNSEventBatch up to the loop: nothing to do for an empty slice;
\* Begin or Prepare fails and the error is returned; or the loop is entered.
InsertDNSEventBatch ==
  /\ \E n \in 0..MaxDNSBatchLen :
       BatchCall("InsertDNSEventBatch", [i \in 1..n |-> DNSBatchEvent(i)])
  /\ \/ /\ events' = <<>>
        /\ bpc' = "returned" /\ berr' = "nil"
     \/ /\ events' # <<>>
        /\ bpc' = "returned" /\ berr' = "error"
     \/ /\ events' # <<>>
        /\ bpc' = "exec" /\ berr' = ""
  /\ UNCHANGED outsideBatch
  /\ UNCHANGED <<commandVars, storeVars, dnsEvents>>

\* One stmt.Exec of the loop: the row is written in the transaction, or the
\* Exec fails, the error is returned and the deferred Rollback runs.
InsertDNSEventBatchExec ==
  /\ bpc = "exec"
  /\ bnext <= Len(events)
  /\ \/ /\ txRows' = Append(txRows, events[bnext])
        /\ bnext' = bnext + 1
        /\ UNCHANGED <<dnsEvents, bpc, berr>>
     \/ /\ dnsEvents' = Rollback(dnsEvents, txRows)
        /\ txRows' = <<>>
        /\ bpc' = "returned"
        /\ berr' = "error"
        /\ UNCHANGED bnext
  /\ UNCHANGED outsideBatch
  /\ UNCHANGED <<commandVars, storeVars, bfn, events, bstart, bcalls>>

\* tx.Commit(): the rows of the transaction become rows of the table, or
\* the commit fails, the error is returned and the deferred Rollback runs.
InsertDNSEventBatchCommit ==
  /\ bpc = "exec"
  /\ bnext > Len(events)
  /\ \/ /\ dnsEvents' = dnsEvents \o txRows
        /\ berr' = "nil"
     \/ /\ dnsEvents' = Rollback(dnsEvents, txRows)
        /\ berr' = "error"
  /\ txRows' = <<>>
  /\ bpc' = "returned"
  /\ UNCHANGED outsideBatch
  /\ UNCHANGED <<commandVars, storeVars, bfn, events, bnext, bstart, bcalls>>

\* ------------------------------------------------- the legacy DNS pipeline
\* DNSSniffer after NewDNSSniffer and Start: the processPackets goroutine
\* runs, and Serve is in its loop.  The channel's capacity (1000 in
\* NewDNSSniffer) and Serve's batchSize (100 by default) are scaled down to
\* EventChanCap and batchSize.  Events are numbered in the order in which
\* they were captured; event k is written as DNSBatchEvent(k).
outsideSniffer ==
  <<commandVars, storeVars, batchVars, serveVars, publisherVars, flagVars,
    watcherVars, hubVars>>
outsideServe ==
  <<commandVars, storeVars, bfn, bpc, events, bnext, txRows, berr, bstart,
    bcalls, captured, inFlight, droppedEvents, sniffPc, publisherVars,
    flagVars, watcherVars, hubVars>>

\* processPackets takes the next packet off packetSource.Packets() and
\* parsePacket makes a DNSEvent of it.
ProcessPacketsParse ==
  /\ fault = ""
  /\ sniffPc = "running"
  /\ ~handleClosed
  /\ inFlight = 0
  /\ captured < MaxPackets
  /\ captured' = captured + 1
  /\ inFlight' = captured + 1
  /\ UNCHANGED <<eventChan, chanClosed, handleClosed, droppedEvents, sniffPc,
                 received, stopCalls, fault>>
  /\ UNCHANGED outsideSniffer

\* select { case d.eventChan <- *event: default: }: the event is queued if
\* the channel has room and is dropped otherwise.
SendOrDrop(ch, e) ==
  IF Len(ch) < EventChanCap
  THEN [chan |-> Append(ch, e), dropped |-> {}]
  ELSE [chan |-> ch, dropped |-> {e}]

\* The send of processPackets; on a closed channel it panics.
ProcessPacketsSend ==
  /\ fault = ""
  /\ sniffPc = "running"
  /\ inFlight # 0
  /\ IF chanClosed
     THEN /\ fault' = "send on closed channel"
          /\ UNCHANGED <<eventChan, droppedEvents>>
     ELSE /\ eventChan' = SendOrDrop(eventChan, inFlight).chan
          /\ droppedEvents' =
               droppedEvents \cup SendOrDrop(eventChan, inFlight).dropped
          /\ UNCHANGED fault
  /\ inFlight' = 0
  /\ UNCHANGED <<chanClosed, handleClosed, captured, sniffPc, received,
                 stopCalls>>
  /\ UNCHANGED outsideSniffer

\* The handle is closed, Packets() is closed after it and the loop ends.
ProcessPacketsEnd ==
  /\ fault = ""
  /\ sniffPc = "running"
  /\ handleClosed
  /\ inFlight = 0
  /\ sniffPc' = "ended"
  /\ UNCHANGED <<eventChan, chanClosed, handleClosed, captured, inFlight,
                 droppedEvents, received, stopCalls, fault>>
  /\ UNCHANGED outsideSniffer

\* DNSSniffer.Stop: d.handle.Close(), then close(d.eventChan), which panics
\* on a channel that is closed already.
Stop ==
  /\ handleClosed' = TRUE
  /\ stopCalls' = stopCalls + 1
  /\ IF chanClosed
     THEN fault' = "close of closed channel" /\ UNCHANGED chanClosed
     ELSE chanClosed' = TRUE /\ UNCHANGED fault

\* The owner of a sniffer calls Stop.
SnifferStop ==
  /\ fault = ""
  /\ stopCalls < MaxStops
  /\ Stop
  /\ UNCHANGED <<eventChan, captured, inFlight, droppedEvents, sniffPc,
                 received>>
  /\ UNCHANGED outsideSniffer

\* A reader of GetEventChannel() takes the next event.
EventChannelReceive ==
  /\ fault = ""
  /\ eventChan # <<>>
  /\ eventChan' = Tail(eventChan)
  /\ received' = received + 1
  /\ UNCHANGED <<chanClosed, handleClosed, captured, inFlight, droppedEvents,
                 sniffPc, stopCalls, fault>>
  /\ UNCHANGED outsideSniffer

\* What db.InsertDNSEventBatch(batch) can leave in dns_events: all the
\* events of the batch after the rows there were, or, on an error, those
\* rows alone.
InsertDNSEventBatchResults(tbl, b) ==
  {tbl \o [i \in 1..Len(b) |-> DNSBatchEvent(b[i])], Rollback(tbl, b)}

\* Faulty variant of Truncate: the inserted events stay in the slice.
TruncateKeeps(b) == b

\* batch = batch[:0], after every insert of the loop, failed or not.
Truncate(b) == <<>>

\* The insert of the batch b of this step returned an error (it left the
\* table as it was) or nil: log.Printf("Failed to insert batch: %v", err).
InsertFailed(b) == b # <<>> /\ dnsEvents' = dnsEvents
LogInsert(b) ==
  failedEvents' = IF InsertFailed(b)
                  THEN failedEvents \cup {b[i] : i \in 1..Len(b)}
                  ELSE failedEvents

\* Serve returns nil: the deferred sniffer.Stop() runs (db.Close() after it).
ServeReturn ==
  /\ servePc' = "returned"
  /\ Stop

\* case event, ok := <-eventChan.  A closed and empty channel ends Serve
\* after a last insert of a non-empty batch; an event is appended to the
\* batch, which is inserted and emptied when it has batchSize events.
ServeReceive ==
  /\ fault = ""
  /\ servePc = "loop"
  /\ \/ /\ eventChan = <<>>
        /\ chanClosed
        /\ IF Len(batch) > 0
           THEN /\ dnsEvents' \in InsertDNSEventBatchResults(dnsEvents, batch)
                /\ finalFlushes' = finalFlushes + 1
           ELSE UNCHANGED <<dnsEvents, finalFlushes>>
        /\ LogInsert(batch)
        /\ ServeReturn
        /\ UNCHANGED <<eventChan, received, batch>>
     \/ /\ eventChan # <<>>
        /\ eventChan' = Tail(eventChan)
        /\ received' = received + 1
        /\ IF Len(batch) + 1 >= batchSize
           THEN /\ dnsEvents' \in
                     InsertDNSEventBatchResults(dnsEvents,
                                                Append(batch, Head(eventChan)))
                /\ LogInsert(Append(batch, Head(eventChan)))
                /\ batch' = Truncate(Append(batch, Head(eventChan)))
           ELSE /\ batch' = Append(batch, Head(eventChan))
                /\ UNCHANGED <<dnsEvents, failedEvents>>
        /\ UNCHANGED <<chanClosed, handleClosed, stopCalls, fault, servePc,
                       finalFlushes>>
  /\ UNCHANGED outsideServe

\* case <-batchTicker.C: a non-empty batch is inserted and emptied.
ServeBatchTick ==
  /\ fault = ""
  /\ servePc = "loop"
  /\ Len(batch) > 0
  /\ dnsEvents' \in InsertDNSEventBatchResults(dnsEvents, batch)
  /\ LogInsert(batch)
  /\ batch' = Truncate(batch)
  /\ UNCHANGED <<eventChan, chanClosed, handleClosed, received, stopCalls,
                 fault, servePc, finalFlushes>>
  /\ UNCHANGED outsideServe

\* case sig := <-sigChan: a last insert of a non-empty batch, and Serve
\* returns.  The slice is not emptied.
ServeSignal ==
  /\ fault = ""
  /\ servePc = "loop"
  /\ IF Len(batch) > 0
     THEN /\ dnsEvents' \in InsertDNSEventBatchResults(dnsEvents, batch)
          /\ finalFlushes' = finalFlushes + 1
     ELSE UNCHANGED <<dnsEvents, finalFlushes>>
  /\ LogInsert(batch)
  /\ ServeReturn
  /\ UNCHANGED <<eventChan, received, batch>>
  /\ UNCHANGED outsideServe

\* ----------------------------------------------------- the event publisher
\* database.PublishEvent and the web hub behind it.  The capacity of
\* Hub.broadcast (256 in NewHub) is scaled down to BroadcastCap.  The k-th
\* event published is marshalled to the message k.
outsidePublisher ==
  <<commandVars, storeVars, batchVars, snifferVars, serveVars, flagVars,
    watcherVars, hubVars>>

\* SetEventPublisher(p), as NewHub calls it with the hub it has made.
SetEventPublisher ==
  /\ \E p \in Hubs : globalPublisher' = p
  /\ UNCHANGED <<clients, broadcast, published, ppc, pcall, lastCall>>
  /\ UNCHANGED outsidePublisher

\* Hub.Run, case client := <-h.register.
HubRunRegister ==
  /\ \E h \in Hubs :
       /\ clients[h] < MaxClients
       /\ clients' = [clients EXCEPT ![h] = @ + 1]
  /\ UNCHANGED <<globalPublisher, broadcast, published, ppc, pcall, lastCall>>
  /\ UNCHANGED outsidePublisher

\* Hub.Run, case client := <-h.unregister.
HubRunUnregister ==
  /\ \E h \in Hubs :
       /\ clients[h] > 0
       /\ clients' = [clients EXCEPT ![h] = @ - 1]
  /\ UNCHANGED <<globalPublisher, broadcast, published, ppc, pcall, lastCall>>
  /\ UNCHANGED outsidePublisher

\* Hub.Run, case message := <-h.broadcast: the message goes to every client
\* whose send buffer has room; the other clients are removed.
HubRunBroadcast ==
  /\ \E h \in Hubs :
       /\ broadcast[h] # <<>>
       /\ broadcast' = [broadcast EXCEPT ![h] = Tail(@)]
       /\ \E n \in 0..clients[h] : clients' = [clients EXCEPT ![h] = n]
  /\ UNCHANGED <<globalPublisher, published, ppc, pcall, lastCall>>
  /\ UNCHANGED outsidePublisher

\* A call that returns without reaching the select of Hub.PublishEvent.
PublishReturn(outcome) ==
  /\ UNCHANGED broadcast
  /\ ppc' = "idle"
  /\ pcall' = NoCall
  /\ lastCall' = [pub |-> globalPublisher, data |-> published + 1,
                  outcome |-> outcome, before |-> broadcast,
                  after |-> broadcast']

\* database.PublishEvent(event): nothing without a publisher; otherwise
\* Hub.PublishEvent, which returns when the hub has no client or when
\* json.Marshal fails, and goes on to the select with the message if not.
PublishEvent ==
  /\ ppc = "idle"
  /\ published < MaxPublished
  /\ published' = published + 1
  /\ IF globalPublisher = "nil"
     THEN PublishReturn("no publisher")
     ELSE IF clients[globalPublisher] = 0
          THEN PublishReturn("no client")
          ELSE \/ PublishReturn("marshal failed")
               \/ /\ ppc' = "select"
                  /\ pcall' = [pub |-> globalPublisher, data |-> published + 1]
                  /\ UNCHANGED <<broadcast, lastCall>>
  /\ UNCHANGED <<globalPublisher, clients>>
  /\ UNCHANGED outsidePublisher

\* Faulty variant of SelectBroadcast: a plain send, which waits for room.
SelectBroadcastNoDefault(ch) ==
  IF Len(ch) < BroadcastCap THEN {"send"} ELSE {}

\* select { case h.broadcast <- data: default: }: the cases that can run.
SelectBroadcast(ch) ==
  IF Len(ch) < BroadcastCap THEN {"send"} ELSE {"default"}

\* The select of Hub.PublishEvent: the message is queued, or the channel is
\* full and the message is dropped; the call returns.
HubPublishEventSelect ==
  /\ ppc = "select"
  /\ \E c \in SelectBroadcast(broadcast[pcall.pub]) :
       /\ broadcast' =
            IF c = "send"
            THEN [broadcast EXCEPT ![pcall.pub] = Append(@, pcall.data)]
            ELSE broadcast
       /\ lastCall' = [pub |-> pcall.pub, data |-> pcall.data,
                       outcome |-> IF c = "send" THEN "queued" ELSE "dropped",
                       before |-> broadcast, after |-> broadcast']
  /\ ppc' = "idle"
  /\ pcall' = NoCall
  /\ UNCHANGED <<globalPublisher, clients, published>>
  /\ UNCHANGED outsidePublisher

\* ------------------------------------------------- the hub and its clients
\* One Hub with its Run goroutine, the websocket clients ServeWs makes and
\* the callers of Hub.PublishEvent.  The capacity of Client.send (256 in
\* ServeWs) is scaled down to SendCap; Hub.register and Hub.unregister are
\* unbuffered, so a client waits in ServeWs, and in readPump's deferred
\* function, until Hub.Run takes it.  h.mutex.Lock() waits until no reader
\* holds the lock; h.mutex.RLock() does not wait for other readers.
outsideHub ==
  <<commandVars, storeVars, batchVars, snifferVars, serveVars, publisherVars,
    flagVars, watcherVars>>

\* close(client.send): a second close of the channel panics.
CloseSend(c) ==
  /\ sendCloses' = [sendCloses EXCEPT ![c] = @ + 1]
  /\ hubFault' = IF sendCloses[c] > 0 THEN "close of closed channel"
                 ELSE hubFault

\* Faulty variant of IsRegistered: the map is not looked at.
IsRegisteredAlways(m, c) == TRUE

\* if _, ok := h.clients[client]; ok.
IsRegistered(m, c) == c \in m

\* select { case client.send <- message: default: }: the case that runs.
SelectSend(ch) == IF Len(ch) < SendCap THEN "send" ELSE "default"

\* ServeWs: the connection is upgraded, the Client is made and sent on
\* h.register.
ServeWs ==
  /\ hubFault = ""
  /\ \E c \in WsClients :
       /\ pump[c] = "none"
       /\ pump' = [pump EXCEPT ![c] = "registering"]
  /\ UNCHANGED <<hubClients, hubBroadcast, hubPublished, send, sendCloses,
                 hubPc, message, ranging, readers, hubFault, lastWrite, roomy,
                 got>>
  /\ UNCHANGED outsideHub

\* Hub.Run, case client := <-h.register: the client is put in the map under
\* the write lock; ServeWs goes on and starts writePump and readPump.
HubRegister ==
  /\ hubFault = ""
  /\ hubPc = "select"
  /\ readers = {}
  /\ \E c \in WsClients :
       /\ pump[c] = "registering"
       /\ hubClients' = hubClients \cup {c}
       /\ pump' = [pump EXCEPT ![c] = "running"]
  /\ lastWrite' = [lock |-> "Lock", readers |-> readers]
  /\ UNCHANGED <<hubBroadcast, hubPublished, send, sendCloses, hubPc, message,
                 ranging, readers, hubFault, roomy, got>>
  /\ UNCHANGED outsideHub

\* readPump: ReadMessage fails (the peer is gone, or writePump has closed
\* the connection) and the deferred function sends the client on
\* h.unregister.
ReadPumpReturn ==
  /\ hubFault = ""
  /\ \E c \in WsClients :
       /\ pump[c] = "running"
       /\ pump' = [pump EXCEPT ![c] = "unregistering"]
  /\ UNCHANGED <<hubClients, hubBroadcast, hubPublished, send, sendCloses,
                 hubPc, message, ranging, readers, hubFault, lastWrite, roomy,
                 got>>
  /\ UNCHANGED outsideHub

\* Hub.Run, case client := <-h.unregister: under the write lock, a client
\* that is in the map is deleted from it and its send channel is closed.
HubUnregister ==
  /\ hubFault = ""
  /\ hubPc = "select"
  /\ readers = {}
  /\ \E c \in WsClients :
       /\ pump[c] = "unregistering"
       /\ pump' = [pump EXCEPT ![c] = "done"]
       /\ IF IsRegistered(hubClients, c)
          THEN /\ hubClients' = hubClients \ {c}
               /\ CloseSend(c)
               /\ lastWrite' = [lock |-> "Lock", readers |-> readers]
          ELSE UNCHANGED <<hubClients, sendCloses, hubFault, lastWrite>>
  /\ UNCHANGED <<hubBroadcast, hubPublished, send, hubPc, message, ranging,
                 readers, roomy, got>>
  /\ UNCHANGED outsideHub

\* writePump: case message, ok := <-c.send takes a buffered message.
WritePump ==
  /\ hubFault = ""
  /\ \E c \in WsClients :
       /\ pump[c] \in {"running", "unregistering", "done"}
       /\ send[c] # <<>>
       /\ send' = [send EXCEPT ![c] = Tail(@)]
  /\ UNCHANGED <<hubClients, hubBroadcast, hubPublished, sendCloses, pump,
                 hubPc, message, ranging, readers, hubFault, lastWrite, roomy,
                 got>>
  /\ UNCHANGED outsideHub

\* Hub.Run, case message := <-h.broadcast: the read lock is taken and the
\* range over h.clients begins.
HubBroadcastRLock ==
  /\ hubFault = ""
  /\ hubPc = "select"
  /\ hubBroadcast # <<>>
  /\ message' = Head(hubBroadcast)
  /\ hubBroadcast' = Tail(hubBroadcast)
  /\ ranging' = hubClients
  /\ hubPc' = "range"
  /\ roomy' = {c \in hubClients : Len(send[c]) < SendCap}
  /\ got' = {}
  /\ UNCHANGED <<hubClients, hubPublished, send, sendCloses, pump, readers,
                 hubFault, lastWrite>>
  /\ UNCHANGED outsideHub

\* One iteration of the range: the message is sent to the client, or its
\* buffer is full and the client's channel is closed and the client deleted
\* from the map, the read lock still held.  A send on a closed channel
\* panics.
HubBroadcastClient ==
  /\ hubFault = ""
  /\ hubPc = "range"
  /\ \E c \in ranging :
       /\ ranging' = ranging \ {c}
       /\ IF sendCloses[c] > 0
          THEN /\ hubFault' = "send on closed channel"
               /\ UNCHANGED <<hubClients, send, sendCloses, lastWrite, got>>
          ELSE IF SelectSend(send[c]) = "send"
          THEN /\ send' = [send EXCEPT ![c] = Append(@, message)]
               /\ got' = got \cup {c}
               /\ UNCHANGED <<hubClients, sendCloses, hubFault, lastWrite>>
          ELSE /\ CloseSend(c)
               /\ hubClients' = hubClients \ {c}
               /\ lastWrite' = [lock |-> "RLock", readers |-> readers]
               /\ UNCHANGED <<send, got>>
  /\ UNCHANGED <<hubBroadcast, hubPublished, pump, hubPc, message, readers,
                 roomy>>
  /\ UNCHANGED outsideHub

\* The range is over: h.mutex.RUnlock().
HubBroadcastRUnlock ==
  /\ hubFault = ""
  /\ hubPc = "range"
  /\ ranging = {}
  /\ hubPc' = "select"
  /\ UNCHANGED <<hubClients, hubBroadcast, hubPublished, send, sendCloses,
                 pump, message, ranging, readers, hubFault, lastWrite, roomy,
                 got>>
  /\ UNCHANGED outsideHub

\* Hub.PublishEvent calls ClientCount, which takes the read lock.
ClientCountRLock ==
  /\ hubFault = ""
  /\ hubPublished < MaxHubMessages
  /\ \E g \in Callers \ readers : readers' = readers \cup {g}
  /\ UNCHANGED <<hubClients, hubBroadcast, hubPublished, send, sendCloses,
                 pump, hubPc, message, ranging, hubFault, lastWrite, roomy,
                 got>>
  /\ UNCHANGED outsideHub

\* ClientCount returns len(h.clients) and releases the read lock.  With no
\* client Hub.PublishEvent returns; otherwise the event is marshalled and
\* the message is queued on h.broadcast, or dropped if that is full.
ClientCountReturn ==
  /\ hubFault = ""
  /\ \E g \in readers :
       /\ readers' = readers \ {g}
       /\ IF Cardinality(hubClients) = 0
          THEN UNCHANGED <<hubBroadcast, hubPublished>>
          ELSE /\ hubPublished' = hubPublished + 1
               /\ hubBroadcast' =
                    IF "send" \in SelectBroadcast(hubBroadcast)
                    THEN Append(hubBroadcast, hubPublished + 1)
                    ELSE hubBroadcast
  /\ UNCHANGED <<hubClients, send, sendCloses, pump, hubPc, message, ranging,
                 hubFault, lastWrite, roomy, got>>
  /\ UNCHANGED outsideHub

\* -------------------------------------------------------------- the watcher
\* Watcher.Run, one sniffInterface goroutine per interface, and the session
\* manager they call into.  The session manager is described by section
\* 4.5 of the specification: its per-packet rules, its sweeper and what it
\* does when it is stopped.  Its state is the record S of the two flow
\* maps and of the events emitted; an event emitted when the store is
\* closed is not persisted.
outsideWatcher ==
  <<commandVars, storeVars, batchVars, snifferVars, serveVars, publisherVars,
    flagVars, hubVars>>

UDPIdleMs == 30 * 1000
TCPIdleMs == 120 * 1000

Session == [tcp_flows |-> tcp_flows, udp_flows |-> udp_flows,
            emitted |-> emitted, calls |-> <<>>]

\* A call into the session manager is recorded with what it does.
Called(S, name) == [S EXCEPT !.calls = Append(@, name)]

Event(type, reason) ==
  [event_type |-> type, reason |-> reason, persisted |-> TRUE]

Emit(S, closed, key, e) ==
  [S EXCEPT !.emitted[key] = Append(@, [e EXCEPT !.persisted = ~closed])]

NewFlow(t) ==
  [known |-> TRUE, first_seen |-> t, last_seen |-> t, bytes |-> 0,
   sni |-> FALSE]

\* Faulty variant of IsNewTCP: every SYN opens a flow.
IsNewTCPOnEverySYN(S, i, synOnly) == synOnly

\* A SYN without ACK on a flow-key that is not in tcp_flows.
IsNewTCP(S, i, synOnly) == synOnly /\ ~S.tcp_flows[i].known

\* TrackTCP: a SYN-only packet on an unknown flow-key inserts the flow and
\* emits TCP_START; every packet of a known flow adds its bytes and sets
\* last_seen; FIN or RST emits TCP_END and removes the flow.
TrackTCP(S, closed, i, synOnly, fin, rst, length, t) ==
  LET S1 == IF IsNewTCP(S, i, synOnly)
            THEN Emit([S EXCEPT !.tcp_flows[i] = NewFlow(t)], closed,
                      <<i, "tcp">>, Event(EventTCPStart, ""))
            ELSE S
      S2 == IF S1.tcp_flows[i].known
            THEN [S1 EXCEPT !.tcp_flows[i].bytes = @ + length,
                            !.tcp_flows[i].last_seen = t]
            ELSE S1
  IN IF (fin \/ rst) /\ S2.tcp_flows[i].known
     THEN Emit([S2 EXCEPT !.tcp_flows[i] = NoFlow], closed, <<i, "tcp">>,
               Event(EventTCPEnd, IF fin THEN "FIN" ELSE "RST"))
     ELSE S2

\* Faulty variant of TrackTLSHandshake: every ClientHello emits TLS_SNI.
TrackTLSHandshakeEveryHello(S, closed, i, sni) ==
  Emit(S, closed, <<i, "tcp">>, Event(EventTLSSNI, ""))

\* TrackTLSHandshake: a non-empty SNI emits TLS_SNI, once per flow; the
\* flow entry remembers that it has.
TrackTLSHandshake(S, closed, i, sni) ==
  IF S.tcp_flows[i].known /\ S.tcp_flows[i].sni
  THEN S
  ELSE Emit(IF S.tcp_flows[i].known
            THEN [S EXCEPT !.tcp_flows[i].sni = TRUE]
            ELSE S,
            closed, <<i, "tcp">>, Event(EventTLSSNI, ""))

\* TrackUDP: a datagram on an unknown flow-key inserts the flow and emits
\* UDP_START; every datagram adds its bytes and sets last_seen.
TrackUDP(S, closed, i, length, t) ==
  LET S1 == IF ~S.udp_flows[i].known
            THEN Emit([S EXCEPT !.udp_flows[i] = NewFlow(t)], closed,
                      <<i, "udp">>, Event(EventUDPStart, ""))
            ELSE S
  IN [S1 EXCEPT !.udp_flows[i].bytes = @ + length,
                !.udp_flows[i].last_seen = t]

\* TrackDNS: a payload with questions emits a DNS event.  (The resolution
\* cache it also feeds is not modelled.)
TrackDNS(S, closed, i) == Emit(S, closed, <<i, "udp">>, Event(EventDNS, ""))

\* TrackICMP: one ICMP event per packet, no flow state.
TrackICMP(S, closed, i) == Emit(S, closed, <<i, "icmp">>, Event(EventICMP, ""))

\* Faulty variant of IsIdle: the UDP threshold is applied to every flow.
IsIdleUDPThreshold(f, threshold, t) == f.known /\ t - f.last_seen > UDPIdleMs

\* A flow whose last_seen is older than the idle threshold.
IsIdle(f, threshold, t) == f.known /\ t - f.last_seen > threshold

\* What the removal of a flow emits: TIMEOUT with reason TIMEOUT for TCP,
\* UDP_END for UDP.
RemovalEvent(proto) ==
  IF proto = "tcp" THEN Event(EventTimeout, "TIMEOUT")
  ELSE Event(EventUDPEnd, "")

\* One walk of the sweeper over both maps: every idle flow is removed and
\* its removal event is emitted.
Sweep(S, closed, t) ==
  [tcp_flows |-> [i \in Interfaces |->
                    IF IsIdle(S.tcp_flows[i], TCPIdleMs, t) THEN NoFlow
                    ELSE S.tcp_flows[i]],
   udp_flows |-> [i \in Interfaces |->
                    IF IsIdle(S.udp_flows[i], UDPIdleMs, t) THEN NoFlow
                    ELSE S.udp_flows[i]],
   emitted |-> [k \in FlowKeys |->
                  IF \/ k[2] = "tcp" /\ IsIdle(S.tcp_flows[k[1]], TCPIdleMs, t)
                     \/ k[2] = "udp" /\ IsIdle(S.udp_flows[k[1]], UDPIdleMs, t)
                  THEN Emit(S, closed, k, RemovalEvent(k[2])).emitted[k]
                  ELSE S.emitted[k]],
   calls |-> S.calls]

\* SessionManager.Stop: the removal event of every outstanding flow is
\* emitted and the maps are emptied.
StopSession(S, closed) ==
  [tcp_flows |-> [i \in Interfaces |-> NoFlow],
   udp_flows |-> [i \in Interfaces |-> NoFlow],
   emitted |-> [k \in FlowKeys |->
                  IF \/ k[2] = "tcp" /\ S.tcp_flows[k[1]].known
                     \/ k[2] = "udp" /\ S.udp_flows[k[1]].known
                  THEN Emit(S, closed, k, RemovalEvent(k[2])).emitted[k]
                  ELSE S.emitted[k]],
   calls |-> S.calls]

SetSession(S) ==
  /\ tcp_flows' = S.tcp_flows
  /\ udp_flows' = S.udp_flows
  /\ emitted' = S.emitted

\* The frames a sniffer reads.  A frame has the layers the decoder found
\* (an IP layer or none, a transport layer or none) and possibly an error
\* layer.  TCP segments have their flags and, as payload, nothing or a
\* ClientHello that names a server; UDP datagrams go to port 53 with a
\* question, or to another port.
Frame(err, ip, layer) ==
  [err |-> err, ip |-> ip, layer |-> layer, synOnly |-> FALSE, fin |-> FALSE,
   rst |-> FALSE, sni |-> "", dns |-> FALSE]

\* Traffic of TCP and UDP flows.
FlowFrames ==
  [err : {FALSE}, ip : {"IPv4"}, layer : {"TCP"}, synOnly : {TRUE},
   fin : {FALSE}, rst : {FALSE}, sni : {""}, dns : {FALSE}]
    \cup [err : {FALSE}, ip : {"IPv4"}, layer : {"TCP"}, synOnly : {FALSE},
          fin : BOOLEAN, rst : {FALSE}, sni : {"", "example.com"},
          dns : {FALSE}]
    \cup [err : {FALSE}, ip : {"IPv4"}, layer : {"TCP"}, synOnly : {FALSE},
          fin : {FALSE}, rst : {TRUE}, sni : {""}, dns : {FALSE}]
    \cup [err : {FALSE}, ip : {"IPv4"}, layer : {"UDP"}, synOnly : {FALSE},
          fin : {FALSE}, rst : {FALSE}, sni : {""}, dns : BOOLEAN]

\* Traffic of every kind: a SYN, a DNS datagram, ICMP of both versions, an
\* IPv4 frame of another protocol (IGMP), a frame that is not IP (ARP),
\* and a truncated SYN, which has an error layer after its TCP layer.
MixedFrames ==
  {[Frame(FALSE, "IPv4", "TCP") EXCEPT !.synOnly = TRUE],
   [Frame(FALSE, "IPv6", "UDP") EXCEPT !.dns = TRUE],
   Frame(FALSE, "IPv4", "ICMPv4"), Frame(FALSE, "IPv6", "ICMPv6"),
   Frame(FALSE, "IPv4", ""), Frame(FALSE, "", ""),
   [Frame(TRUE, "IPv4", "TCP") EXCEPT !.synOnly = TRUE]}

Packets == IF profile = "mixed" THEN MixedFrames ELSE FlowFrames

\* Faulty variant of processPacket: the error layer and the IP layers are
\* not looked at.
processPacketAnyFrame(S, closed, pkt, ifaceName, t) ==
  IF pkt.layer = "TCP"
  THEN Called(TrackTCP(S, closed, ifaceName, pkt.synOnly, pkt.fin, pkt.rst,
                       1, t), "TrackTCP")
  ELSE IF pkt.layer = "UDP"
  THEN Called(TrackUDP(S, closed, ifaceName, 1, t), "TrackUDP")
  ELSE Called(TrackICMP(S, closed, ifaceName), "TrackICMP")

\* processPacket: a frame with an error layer is logged and dropped, and
\* so is one without an IPv4 or IPv6 layer.  Then the first of the TCP,
\* UDP, ICMPv4 and ICMPv6 layers that the frame has decides: TrackTCP, and
\* TrackTLSHandshake after it for a payload that begins with 0x16 and has
\* an SNI; TrackUDP, and TrackDNS after it for port 53 and a payload with
\* questions; TrackICMP.
processPacket(S, closed, pkt, ifaceName, t) ==
  IF pkt.err THEN S
  ELSE IF pkt.ip \notin {"IPv4", "IPv6"} THEN S
  ELSE IF pkt.layer = "TCP"
  THEN LET T == Called(TrackTCP(S, closed, ifaceName, pkt.synOnly, pkt.fin,
                                pkt.rst, 1, t), "TrackTCP")
       IN IF pkt.sni # ""
          THEN Called(TrackTLSHandshake(T, closed, ifaceName, pkt.sni),
                      "TrackTLSHandshake")
          ELSE T
  ELSE IF pkt.layer = "UDP"
  THEN LET U == Called(TrackUDP(S, closed, ifaceName, 1, t), "TrackUDP")
       IN IF pkt.dns
          THEN Called(TrackDNS(U, closed, ifaceName), "TrackDNS")
          ELSE U
  ELSE IF pkt.layer \in {"ICMPv4", "ICMPv6"}
  THEN Called(TrackICMP(S, closed, ifaceName), "TrackICMP")
  ELSE S

\* sniffInterface, case packet := <-source.Packets().  The select may take
\* this case when the context is cancelled as well.  Frames never stop
\* arriving; those that reach the session manager are counted and bounded.
SniffPacket ==
  /\ \E i \in Interfaces, pkt \in Packets :
       /\ sniffers[i] = "running"
       /\ LET P == processPacket(Session, dbClosed, pkt, i, wnow)
          IN /\ packets < MaxWatcherPackets \/ P.calls = <<>>
             /\ packets' = IF P.calls = <<>> THEN packets ELSE packets + 1
             /\ SetSession(P)
             /\ lastFrame' =
                  [err |-> pkt.err, ip |-> pkt.ip, layer |-> pkt.layer,
                   calls |-> P.calls,
                   marked |-> /\ pkt.sni # ""
                              /\ tcp_flows[i].known /\ tcp_flows[i].sni,
                   handled |-> TRUE]
             /\ lateCalls' = IF dbClosed /\ P.calls # <<>>
                             THEN lateCalls + 1 ELSE lateCalls
  /\ UNCHANGED <<ctxDone, runPc, sniffers, monitors, smStopped, dbClosed, wnow,
                 advances>>
  /\ UNCHANGED outsideWatcher

\* Faulty variant of SniffReturn: a select that takes the packet case
\* whenever a frame is ready, and <-ctx.Done() only otherwise.
SniffReturnWhenNoFrame ==
  /\ ctxDone
  /\ Packets = {}
  /\ \E i \in Interfaces :
       /\ sniffers[i] = "running"
       /\ sniffers' = [sniffers EXCEPT ![i] = "returned"]
  /\ UNCHANGED <<ctxDone, runPc, monitors, smStopped, dbClosed, sessionVars,
                 wnow, advances, packets, lateCalls, lastFrame>>
  /\ UNCHANGED outsideWatcher

\* sniffInterface, case <-ctx.Done(): the goroutine returns and the
\* deferred handle.Close() and wg.Done() run.
SniffReturn ==
  /\ ctxDone
  /\ \E i \in Interfaces :
       /\ sniffers[i] = "running"
       /\ sniffers' = [sniffers EXCEPT ![i] = "returned"]
  /\ UNCHANGED <<ctxDone, runPc, monitors, smStopped, dbClosed, sessionVars,
                 wnow, advances, packets, lateCalls, lastFrame>>
  /\ UNCHANGED outsideWatcher

\* monitorDrops, case <-ctx.Done(): the goroutine returns.  (Its other
\* case, the 30 s ticker, reads the socket statistics and logs them.)
MonitorDropsReturn ==
  /\ ctxDone
  /\ \E i \in Interfaces :
       /\ monitors[i] = "running"
       /\ monitors' = [monitors EXCEPT ![i] = "returned"]
  /\ UNCHANGED <<ctxDone, runPc, sniffers, smStopped, dbClosed, sessionVars,
                 wnow, advances, packets, lateCalls, lastFrame>>
  /\ UNCHANGED outsideWatcher

\* The context is cancelled (Ctrl+C).
WatcherCancel ==
  /\ ~ctxDone
  /\ ctxDone' = TRUE
  /\ UNCHANGED <<runPc, sniffers, monitors, smStopped, dbClosed, sessionVars,
                 wnow, advances, packets, lateCalls, lastFrame>>
  /\ UNCHANGED outsideWatcher

\* Run after <-ctx.Done(): w.sessionManager.Stop().
RunStopSessionManager ==
  /\ runPc = "waiting"
  /\ ctxDone
  /\ SetSession(StopSession(Session, dbClosed))
  /\ smStopped' = TRUE
  /\ runPc' = "stopped"
  /\ UNCHANGED <<ctxDone, sniffers, monitors, dbClosed, wnow, advances, packets,
                 lateCalls, lastFrame>>
  /\ UNCHANGED outsideWatcher

\* Run: w.db.Close().
RunCloseDB ==
  /\ runPc = "stopped"
  /\ dbClosed' = TRUE
  /\ runPc' = "closed"
  /\ UNCHANGED <<ctxDone, sniffers, monitors, smStopped, sessionVars, wnow,
                 advances, packets, lateCalls, lastFrame>>
  /\ UNCHANGED outsideWatcher

\* Run: wg.Wait() returns when every sniffInterface goroutine has.
RunWait ==
  /\ runPc = "closed"
  /\ \A i \in Interfaces : sniffers[i] = "returned"
  /\ runPc' = "returned"
  /\ UNCHANGED <<ctxDone, sniffers, monitors, smStopped, dbClosed, sessionVars,
                 wnow, advances, packets, lateCalls, lastFrame>>
  /\ UNCHANGED outsideWatcher

\* The sweeper's ticker fires; the sweeper runs until the manager is
\* stopped.
SessionManagerSweep ==
  /\ ~smStopped
  /\ Sweep(Session, dbClosed, wnow) # Session
  /\ SetSession(Sweep(Session, dbClosed, wnow))
  /\ UNCHANGED <<ctxDone, runPc, sniffers, monitors, smStopped, dbClosed, wnow,
                 advances, packets, lateCalls, lastFrame>>
  /\ UNCHANGED outsideWatcher

\* Time passes: one idle threshold or the other.
WatcherClock ==
  /\ advances < MaxAdvances
  /\ \E d \in {UDPIdleMs, TCPIdleMs} : wnow' = wnow + d
  /\ advances' = advances + 1
  /\ UNCHANGED <<ctxDone, runPc, sniffers, monitors, smStopped, dbClosed,
                 sessionVars, packets, lateCalls, lastFrame>>
  /\ UNCHANGED outsideWatcher

\* ------------------------------------------------------------ specification
Next ==
  \/ InsertEvent
  \/ RunCompact
  \/ CompactTCPCreate
  \/ CompactTCPDeleteStart
  \/ CompactTCPDeleteEnd
  \/ CompactUDPSelect
  \/ CompactUDPCreate
  \/ CompactUDPDeleteStart
  \/ CompactUDPDeleteEnd
  \/ CompactDNSSelect
  \/ CompactDNSCreate
  \/ CompactDNSDeleteQuery
  \/ CompactDNSDeleteResponse
  \/ DeduplicateDNS
  \/ RemoveOrphanedEnds
  \/ RunCompactReturn
  \/ CreateHourlySummarySelect
  \/ CreateHourlySummaryCreate
  \/ CreateHourlySummaryDelete
  \/ CreateHourlySummaryReturn

Spec == Init /\ [][Next]_vars

\* The batch appends on a store no compact command is running on.
InitBatch == Init /\ profile = "dns"

NextBatch ==
  \/ InsertBatch
  \/ CreateInBatchesChunk
  \/ CreateInBatchesCommit
  \/ InsertDNSEventBatch
  \/ InsertDNSEventBatchExec
  \/ InsertDNSEventBatchCommit

SpecBatch == InitBatch /\ [][NextBatch]_vars

\* A DNSSniffer and a caller of its methods.
NextSniffer ==
  \/ ProcessPacketsParse
  \/ ProcessPacketsSend
  \/ ProcessPacketsEnd
  \/ SnifferStop
  \/ EventChannelReceive

SpecSniffer == InitBatch /\ [][NextSniffer]_vars

\* The serve command: processPackets and Serve's loop.  The cleanup ticker
\* is left out: CleanupOldEvents deletes rows at least a day old, and none
\* of the events here is.
NextServe ==
  \/ ProcessPacketsParse
  \/ ProcessPacketsSend
  \/ ProcessPacketsEnd
  \/ ServeReceive
  \/ ServeBatchTick
  \/ ServeSignal

SpecServe == InitBatch /\ [][NextServe]_vars

\* The publisher, the hubs and a caller of PublishEvent.
NextPublisher ==
  \/ SetEventPublisher
  \/ HubRunRegister
  \/ HubRunUnregister
  \/ HubRunBroadcast
  \/ PublishEvent
  \/ HubPublishEventSelect

SpecPublisher == InitBatch /\ [][NextPublisher]_vars

\* The hub of the web server, its clients and the callers of PublishEvent.
NextHub ==
  \/ ServeWs
  \/ HubRegister
  \/ ReadPumpReturn
  \/ HubUnregister
  \/ WritePump
  \/ HubBroadcastRLock
  \/ HubBroadcastClient
  \/ HubBroadcastRUnlock
  \/ ClientCountRLock
  \/ ClientCountReturn

SpecHub == InitBatch /\ [][NextHub]_vars

\* The compact command run from its command line on a table of TCP events.
InitFlags == Init /\ profile = "tcp"

NextFlags ==
  \/ InsertEvent
  \/ RunCompactFlags
  \/ CompactTCPCreate
  \/ CompactTCPDeleteStart
  \/ CompactTCPDeleteEnd
  \/ CompactUDPSelect
  \/ CompactDNSSelect
  \/ DeduplicateDNS
  \/ RemoveOrphanedEnds
  \/ RunCompactReturn

SpecFlags == InitFlags /\ [][NextFlags]_vars

\* The watch command.
NextWatcher ==
  \/ SniffPacket
  \/ SniffReturn
  \/ WatcherCancel
  \/ RunStopSessionManager
  \/ RunCloseDB
  \/ RunWait
  \/ SessionManagerSweep
  \/ WatcherClock

SpecWatcher == InitBatch /\ [][NextWatcher]_vars

\* The capture tasks of the watch command on traffic of every kind, with
\* their drop monitors, under the scheduling of the Go runtime: a
\* goroutine that can run does run, and a select with a ready case takes
\* it; when two cases are ready it takes either, so the case <-ctx.Done()
\* is not passed over for ever.  The clock stands still.
InitCapture == Init /\ profile = "mixed"

NextCapture ==
  \/ SniffPacket
  \/ SniffReturn
  \/ MonitorDropsReturn
  \/ WatcherCancel
  \/ RunStopSessionManager
  \/ RunCloseDB
  \/ RunWait

SpecCapture ==
  /\ InitCapture
  /\ [][NextCapture]_vars
  /\ WF_vars(SniffReturn)
  /\ WF_vars(MonitorDropsReturn)
  /\ WF_vars(RunStopSessionManager)
  /\ WF_vars(RunCloseDB)
  /\ WF_vars(RunWait)

\* -------------------------------------------------------------- properties
\* Some statement of a pair merge has run and not yet all of them.
MergePcs ==
  {"tcp_del_start", "tcp_del_end", "udp_del_start", "udp_del_end",
   "dns_del_start", "dns_del_end"}

IdsOf(R) == {r.id : r \in R}

IsPairRow(r) ==
  r.compacted /\ r.event_type \in {EventTCP, EventUDP, EventDNS}

\* The row the last db.Create wrote.
Created == CHOOSE r \in rows : r.id = nextId - 1

\* C1: whenever no pair merge is half done (so after any run of Compact),
\* every compacted TCP or UDP row has end_time >= timestamp and original_ids
\* names exactly two ids, neither the id of a row in the store.
C1_CompactedFlowRows ==
  pc \notin MergePcs =>
    \A r \in rows :
      (r.compacted /\ r.event_type \in {EventTCP, EventUDP}) =>
        /\ r.end_time >= r.timestamp
        /\ Len(r.original_ids) = 2
        /\ r.original_ids[1] \notin IdsOf(rows)
        /\ r.original_ids[2] \notin IdsOf(rows)

C1_Witness ==
  /\ pc = "returned"
  /\ \E r \in rows : r.compacted /\ r.event_type = EventTCP
  /\ \E r \in rows : ~ r.compacted

\* C2: in every state, a merged row in the store means that neither of its
\* two source rows is (the merge of a pair is atomic).
C2_MergeIsAtomic ==
  \A r \in rows :
    IsPairRow(r) =>
      \A i \in 1..Len(r.original_ids) : r.original_ids[i] \notin IdsOf(rows)

\* The positions inside db.Compact, its return included.
CompactPcs ==
  MergePcs \cup {"tcp_loop", "udp_loop", "dns_loop", "orphans", "returned"}

\* C3: a db.Compact run on the result of a db.Compact with the same cutoff
\* and window, no insert having failed in either, inserts no row and
\* deletes no row: the table stays as the run found it at every step.
C3_CompactIdempotent ==
  (repeat /\ createErrs = 0 /\ pc \in CompactPcs) =>
    /\ rows = runStart
    /\ pc \notin MergePcs

C3_Witness ==
  /\ repeat
  /\ createErrs = 0
  /\ pc = "returned"
  /\ \E r \in rows : IsPairRow(r)
  /\ \E r \in rows : ~ r.compacted
  /\ stats = CompactStats

\* C4 (as amended): the row a pair merge has just written is compacted, its
\* original_ids are the ids of the START/QUERY row and of the END/RESPONSE
\* row it merges, in this order, both rows of the table when the phase
\* began; its duration_ms is the END row's duration for TCP and UDP, and
\* end_time - timestamp for DNS.
C4_MergedRowFields ==
  pc \in {"tcp_del_start", "udp_del_start", "dns_del_start"} =>
    /\ Created.compacted
    /\ Created.original_ids = <<start.id, endEvent.id>>
    /\ {start, endEvent} \subseteq phaseStart
    /\ start.id # endEvent.id
    /\ Created.timestamp = start.timestamp
    /\ Created.end_time = endEvent.timestamp
    /\ Created.duration =
         IF pc = "dns_del_start" THEN Created.end_time - Created.timestamp
         ELSE endEvent.duration

C4_Witness ==
  /\ pc = "tcp_del_start"
  /\ Created.duration # Created.end_time - Created.timestamp
  /\ Created.duration = endEvent.duration

\* C4 as claimed: every compacted TCP, UDP or DNS row has
\* duration_ms = end_time - timestamp.
C4_DurationIsEndMinusStart ==
  \A r \in rows : IsPairRow(r) => r.duration = r.end_time - r.timestamp

\* C5: when db.Compact returns, every TCP_END (UDP_END) row older than the
\* cutoff has a TCP_START (UDP_START) row in the table on the same 4-tuple
\* with a strictly earlier timestamp.
StartTypeOf(endType) ==
  IF endType = EventTCPEnd THEN EventTCPStart ELSE EventUDPStart

C5_NoOrphanedEnds ==
  pc = "returned" =>
    \A e \in rows :
      (e.event_type \in {EventTCPEnd, EventUDPEnd}
         /\ e.timestamp < args.olderThan) =>
        \E s \in rows : /\ s.event_type = StartTypeOf(e.event_type)
                        /\ SameTuple(s, e)
                        /\ s.timestamp < e.timestamp

C5_Witness ==
  /\ pc = "returned"
  /\ stats.OrphanedEndsRemoved > 0
  /\ \E e \in rows : /\ e.event_type = EventTCPEnd
                     /\ e.timestamp < args.olderThan

\* C6: a dry run inserts no row and deletes no row: when the command is
\* done the table is the one it found, and nothing was counted as compacted
\* or summarised.
C6_DryRunChangesNothing ==
  (pc = "done" /\ args.dryRun) =>
    /\ rows = runStart
    /\ stats = CompactStats
    /\ summaries = 0

\* A dry run, with a dedupe window, of a table in which the same command
\* without --dry-run merges a pair and removes a duplicate.
C6_Witness ==
  /\ pc = "done"
  /\ args.dryRun
  /\ args.dedupeWindow > 0
  /\ \E q \in DNSQueryEvents(rows, args.olderThan) :
       DNSResponseEvents(rows, q) # {}
  /\ \E ids \in ToDelete(DNSEventsBefore(rows, args.olderThan), "", NoTime,
                         args.dedupeWindow) : ids # {}

\* C7: DNS dedupe with window w > 0 deletes, among the DNS rows older than
\* the cutoff, exactly the rows that lie less than w after a kept row of the
\* same dns_query, and touches no other row; so the earliest row of each
\* query survives and two survivors of one query are at least w apart.
Scanned == DNSEventsBefore(phaseStart, args.olderThan)

C7_DedupeWithinWindow ==
  pc = "orphans" =>
    /\ rows \subseteq phaseStart
    /\ phaseStart \ rows \subseteq Scanned
    /\ \A x \in Scanned :
         x \notin rows <=>
           \E k \in Scanned \cap rows :
             /\ k.id # x.id
             /\ k.dns_query = x.dns_query
             /\ k.timestamp <= x.timestamp
             /\ x.timestamp - k.timestamp < args.dedupeWindow
    /\ \A x \in Scanned :
         \E k \in Scanned \cap rows : /\ k.dns_query = x.dns_query
                                      /\ k.timestamp <= x.timestamp
                                      /\ \A o \in Scanned :
                                           o.dns_query = x.dns_query =>
                                             k.timestamp <= o.timestamp
    /\ \A k1, k2 \in Scanned \cap rows :
         (k1.dns_query = k2.dns_query /\ k1.id # k2.id) =>
           \/ k1.timestamp - k2.timestamp >= args.dedupeWindow
           \/ k2.timestamp - k1.timestamp >= args.dedupeWindow

\* Rows of one query half a window apart, at 0, w/2 and w: the rows at 0
\* and w are left.
TimesOf(R, q) == {r.timestamp : r \in {x \in R : x.dns_query = q}}

C7_Witness ==
  /\ pc = "orphans"
  /\ Cardinality({x \in Scanned : x.dns_query = "api.x"}) = 3
  /\ TimesOf(Scanned, "api.x")
       = {0, args.dedupeWindow \div 2, args.dedupeWindow}
  /\ TimesOf(rows, "api.x") = {0, args.dedupeWindow}
  /\ Cardinality({x \in rows : x.dns_query = "api.x"}) = 2

\* C8: when the command with --hourly-summary is done, no insert having
\* failed, every (hour, interface, ip_version) bucket that ended before the
\* cutoff and held a non-HOURLY row when the summary step began holds no
\* non-HOURLY row, and a HOURLY row with the bucket's counts was appended.
OldBuckets ==
  {Bucket(r) : r \in {x \in phaseStart :
                        /\ x.event_type # EventHourlySummary
                        /\ HourOf(x.timestamp) + HourMs <= args.olderThan}}

C8_HourlySummaryCoversBuckets ==
  (pc = "done" /\ args.hourlySummary /\ ~ args.dryRun /\ createErrs = 0) =>
    \A h \in OldBuckets :
      /\ \A r \in InBucket(rows, h) : r.event_type = EventHourlySummary
      /\ \E s \in rows \ phaseStart :
           /\ s.event_type = EventHourlySummary
           /\ Bucket(s) = h
           /\ s.protocol = Breakdown(TCPCount(phaseStart, h),
                                     UDPCount(phaseStart, h),
                                     DNSCount(phaseStart, h),
                                     TLSCount(phaseStart, h),
                                     ICMPCount(phaseStart, h))
           /\ s.event_count = TotalCount(phaseStart, h)

\* C9 (as amended): when db.Compact returns, no insert having failed, for
\* every DNS row r with dns_type COMPLETE there is no remaining uncompacted
\* QUERY row q older than the cutoff and RESPONSE row p for r.dns_query
\* with q before p and both timestamps in [r.timestamp, r.end_time].
InSpan(e, r) == r.timestamp <= e.timestamp /\ e.timestamp <= r.end_time

IsComplete(r) == r.event_type = EventDNS /\ r.dns_type = "COMPLETE"

QueriesIn(R, r) ==
  {q \in R : /\ q.event_type = EventDNS /\ q.dns_type = "QUERY"
             /\ q.dns_query = r.dns_query /\ InSpan(q, r)}

ResponsesIn(R, r) ==
  {p \in R : /\ p.event_type = EventDNS /\ p.dns_type = "RESPONSE"
             /\ p.dns_query = r.dns_query /\ InSpan(p, r)}

Added == {With(r, [id |-> 0]) : r \in rows \ bstart.rows}

C10_BatchAllOrNothing ==
  /\ bpc # "returned" => rows = bstart.rows /\ dnsEvents = bstart.dnsEvents
  /\ (bpc = "returned" /\ berr = "error") =>
       rows = bstart.rows /\ dnsEvents = bstart.dnsEvents
  /\ (bpc = "returned" /\ berr = "nil" /\ bfn = "InsertBatch") =>
       /\ bstart.rows \subseteq rows
       /\ Cardinality(rows) = Cardinality(bstart.rows) + Len(events)
       /\ Added = {events[i] : i \in 1..Len(events)}
       /\ dnsEvents = bstart.dnsEvents
  /\ (bpc = "returned" /\ berr = "nil" /\ bfn = "InsertDNSEventBatch") =>
       /\ dnsEvents = bstart.dnsEvents \o events
       /\ rows = bstart.rows

\* A batch of more than two chunks fails after its first chunk was written,
\* on a table that holds rows of an earlier batch.
C10_Witness ==
  /\ bpc = "returned"
  /\ berr = "error"
  /\ bfn = "InsertBatch"
  /\ Len(events) > 2 * BatchSize
  /\ bnext > BatchSize
  /\ rows # {}

\* C17: ids are unique; a step changes no row: every row of the table after
\* it was in the table before it, id and fields alike, or is a new row
\* with an id the sequence had not handed out before; and what a compact
\* command inserts is a compacted or an HOURLY row.
C17_RowIdentityStable ==
  /\ [](\A r, o \in rows : r.id = o.id => r = o)
  /\ [][\A r \in rows' \ rows :
          /\ r.id >= nextId
          /\ nextId' > r.id
          /\ \A o \in rows : o.id < r.id
          /\ pc \notin {"idle", "done"} =>
               (r.compacted \/ r.event_type = EventHourlySummary)]_vars

\* A command has finished that merged a pair with ids below those of a row
\* it left alone: the merged row has the highest id and the two ids of its
\* sources are gone.
C17_Witness ==
  /\ pc = "done"
  /\ \E r, o \in rows :
       /\ r.compacted /\ ~o.compacted
       /\ o.id < r.id
       /\ \E i \in 1..(o.id - 1) : i \notin IdsOfRows(rows)

\* The order of the phases of one invocation with arguments a: the three
\* pair merges, the dedupe for a positive window, the removal of orphaned
\* ENDs, the hourly summary when asked for, and the space reclaim last.
PhasesInOrder(a) ==
  <<"compactTCP", "compactUDP", "compactDNS">>
    \o (IF a.dedupeWindow > 0 THEN <<"deduplicateDNS">> ELSE <<>>)
    \o <<"removeOrphanedEnds">>
    \o (IF a.hourlySummary THEN <<"CreateHourlySummary">> ELSE <<>>)
    \o <<"VACUUM">>

\* C22: an invocation of the compaction that is over has run its phases
\* in this order: TCP pair merge, UDP pair merge, DNS pair merge, DNS
\* dedupe (for a window > 0), orphan END removal, hourly summary (when
\* requested), and the space reclaim last, after every phase that deletes
\* rows.
C22_PhaseOrder ==
  (pc = "done" /\ phases # <<>>) => phases = PhasesInOrder(args)

\* e is the earliest row of R of one of the END types on the 4-tuple of s
\* with s.timestamp < e.timestamp < s.timestamp + 24 h.
InPairWindow(s, e, endTypes) ==
  /\ e.event_type \in endTypes
  /\ e.src_ip = s.src_ip /\ e.src_port = s.src_port
  /\ e.dst_ip = s.dst_ip /\ e.dst_port = s.dst_port
  /\ s.timestamp < e.timestamp
  /\ e.timestamp < s.timestamp + 24 * HourMs

EarliestEnd(R, s, e, endTypes) ==
  /\ e \in R
  /\ InPairWindow(s, e, endTypes)
  /\ \A o \in R : InPairWindow(s, o, endTypes) => e.timestamp <= o.timestamp

\* The merged row m of START s and END e.
MergedFrom(m, s, e, type) ==
  /\ m.event_type = type /\ m.compacted
  /\ m.iface = s.iface /\ m.ip_version = s.ip_version
  /\ m.src_ip = s.src_ip /\ m.src_port = s.src_port
  /\ m.dst_ip = s.dst_ip /\ m.dst_port = s.dst_port
  /\ m.hostname = s.hostname
  /\ m.end_time = e.timestamp
  /\ m.duration = e.duration
  /\ m.byte_count = e.byte_count
  /\ m.reason = e.reason
  /\ m.original_ids = <<s.id, e.id>>

\* The pair merge of one type: written is the position after the merged
\* row is written, deleting the position before the END is deleted, loop
\* the position between two START rows.
PairMergeSelects(written, startType, endTypes, type) ==
  pc = written =>
    /\ start.event_type = startType
    /\ start.timestamp < args.olderThan
    /\ EarliestEnd(rows, start, endEvent, endTypes)
    /\ MergedFrom(Created, start, endEvent, type)

PairMergeSteps(loop, deleting, endTypes) ==
  /\ (pc = deleting /\ pc' = loop) =>
       start \notin rows' /\ endEvent \notin rows'
  /\ (pc = loop /\ pc' = loop /\ createErrs' = createErrs) =>
       /\ rows' = rows
       /\ \A s \in pending \ pending' :
            ~ \E e \in rows : InPairWindow(s, e, endTypes)

\* C23: the TCP and the UDP pair merge take each START row older than
\* older_than, in turn, with the earliest END-type row of its 4-tuple
\* that is later than the START and less than 24 h later, if there is
\* one; the merged row has the START's interface, ip_version, 4-tuple and
\* hostname, end_time = the END's timestamp, the END's duration,
\* byte_count and reason, and original_ids = START id, END id; both rows
\* are deleted; a START without such an END is left as it is.
C23_PairMergeSelectionAndFields ==
  /\ [](/\ PairMergeSelects("tcp_del_start", EventTCPStart,
                            {EventTCPEnd, EventTimeout}, EventTCP)
        /\ PairMergeSelects("udp_del_start", EventUDPStart, {EventUDPEnd},
                            EventUDP))
  /\ [][/\ PairMergeSteps("tcp_loop", "tcp_del_end",
                           {EventTCPEnd, EventTimeout})
        /\ PairMergeSteps("udp_loop", "udp_del_end", {EventUDPEnd})]_vars

\* r is a RESPONSE to the name of the QUERY q, later than q and less than
\* 5 s later.
Answers(q, r) ==
  /\ r.event_type = EventDNS /\ r.dns_type = "RESPONSE"
  /\ r.dns_query = q.dns_query
  /\ q.timestamp < r.timestamp
  /\ r.timestamp < q.timestamp + 5 * 1000

\* The positions of the DNS pair merge.
DNSMergePcs == {"dns_loop", "dns_del_start", "dns_del_end"}

\* C24: the DNS pair merge replaces each QUERY row older than older_than
\* that has a RESPONSE of its dns_query later than it and less than 5 s
\* later, together with the earliest such RESPONSE, by one DNS row with
\* dns_type COMPLETE, the QUERY's timestamp and dns_query, end_time = the
\* RESPONSE's timestamp and the RESPONSE's answers and cnames; a QUERY
\* without such a RESPONSE and every RESPONSE not chosen are left as they
\* are by this phase.
C24_DNSPairMerge ==
  /\ [](pc = "dns_del_start" =>
          /\ start.event_type = EventDNS /\ start.dns_type = "QUERY"
          /\ start.timestamp < args.olderThan
          /\ endEvent \in rows /\ Answers(start, endEvent)
          /\ \A o \in rows :
               Answers(start, o) => endEvent.timestamp <= o.timestamp
          /\ Created.event_type = EventDNS
          /\ Created.dns_type = "COMPLETE"
          /\ Created.timestamp = start.timestamp
          /\ Created.end_time = endEvent.timestamp
          /\ Created.dns_query = start.dns_query
          /\ Created.dns_answers = endEvent.dns_answers
          /\ Created.dns_cnames = endEvent.dns_cnames)
  /\ [][(pc \in DNSMergePcs /\ pc' \in DNSMergePcs) =>
          /\ pc' = "dns_del_start" =>
               rows' \ rows = {Created'} /\ rows \subseteq rows'
          /\ pc' = "dns_del_end" => rows' = rows \ {start}
          /\ pc = "dns_del_end" =>
               /\ rows' = rows \ {endEvent}
               /\ start \notin rows' /\ endEvent \notin rows'
          /\ (pc = "dns_loop" /\ pc' = "dns_loop") => rows' = rows
          /\ (pc = "dns_loop" /\ pc' = "dns_loop"
                /\ createErrs' = createErrs) =>
               \A q \in pending \ pending' :
                 ~ \E r \in rows : Answers(q, r)]_vars

\* The DNS pair merge is over: it has merged one QUERY with its RESPONSE
\* and has left a QUERY older than older_than and a RESPONSE in the store.
C24_Witness ==
  /\ pc = "dns_loop" /\ pending = {}
  /\ createErrs = 0
  /\ \E r \in rows : IsComplete(r) /\ r.compacted
  /\ \E q \in rows : /\ q.event_type = EventDNS /\ q.dns_type = "QUERY"
                      /\ q.timestamp < args.olderThan
  /\ \E r \in rows : r.event_type = EventDNS /\ r.dns_type = "RESPONSE"

\* The pairs db.Compact reports as merged.
PairsCompacted ==
  stats.TCPPairsCompacted + stats.UDPPairsCompacted + stats.DNSPairsCompacted

\* C25: when db.Compact returns, TotalEventsCreated is the sum of the
\* three pair counts, TotalEventsRemoved is twice that sum plus
\* DuplicatesRemoved plus OrphanedEndsRemoved, and the table has as many
\* rows as before the run minus TotalEventsRemoved plus
\* TotalEventsCreated; a pair whose merged row could not be inserted
\* changes no count.
C25_StatsAccounting ==
  /\ [](pc = "returned" =>
          /\ stats.TotalEventsCreated = PairsCompacted
          /\ stats.TotalEventsRemoved =
               2 * PairsCompacted + stats.DuplicatesRemoved
                 + stats.OrphanedEndsRemoved
          /\ Cardinality(rows) =
               Cardinality(runStart) - stats.TotalEventsRemoved
                 + stats.TotalEventsCreated)
  /\ [][createErrs' # createErrs => stats' = stats /\ rows' = rows]_vars

\* db.Compact has returned after merging one DNS pair and failing to
\* insert the merged row of another, which is still in the table.
C25_Witness ==
  /\ pc = "returned"
  /\ createErrs = 1
  /\ PairsCompacted = 1
  /\ stats.TotalEventsRemoved >= 2
  /\ \E q, r \in rows :
       /\ q.event_type = EventDNS /\ q.dns_type = "QUERY"
       /\ q.timestamp < args.olderThan
       /\ Answers(q, r)

Consumed(R) ==
  {r.original_ids[i] : r \in {x \in R : IsPairRow(x)}, i \in 1..2}

\* C30: a source row is consumed by at most one merge: no id is in the
\* original_ids of two merged rows, and a merged row that is written
\* names two rows of the table that no merged row has named, whichever
\* START rows (or QUERY rows) compete for an END (or RESPONSE) row and
\* however many runs there are.
C30_ConsumedOnce ==
  /\ [](\A r, o \in rows :
          (IsPairRow(r) /\ IsPairRow(o) /\ r # o) =>
            \A i, j \in 1..2 : r.original_ids[i] # o.original_ids[j])
  /\ [][\A r \in rows' \ rows :
          IsPairRow(r) =>
            /\ r.original_ids[1] # r.original_ids[2]
            /\ \A i \in 1..2 :
                 /\ r.original_ids[i] \in IdsOf(rows)
                 /\ r.original_ids[i] \notin Consumed(rows)]_vars

\* Two TCP_START rows of one 4-tuple had the same TCP_END row in their
\* windows: the run has merged it with the first and left the second.
C30_Witness ==
  /\ pc = "returned"
  /\ \E r, o \in rows :
       /\ IsPairRow(r) /\ r.event_type = EventTCP
       /\ o.event_type = EventTCPStart
       /\ o.timestamp < args.olderThan
       /\ SameTuple(r, o)
       /\ r.timestamp < o.timestamp
       /\ o.timestamp < r.end_time

\* Same flow-key: the 4-tuple, ip_version and interface.
SameFlowKey(a, b) ==
  SameTuple(a, b) /\ a.iface = b.iface /\ a.ip_version = b.ip_version

\* C31: pair merge and orphan-END removal respect the full flow-key.  A
\* START and an END that are merged were seen on the same interface with
\* the same ip_version, and an END row older than the cutoff that
\* removeOrphanedEnds leaves in the table has an earlier START row of its
\* type with its flow-key, interface and ip_version included.
C31_FullFlowKey ==
  /\ pc \in {"tcp_del_start", "udp_del_start"} =>
       (start.iface = endEvent.iface
          /\ start.ip_version = endEvent.ip_version)
  /\ (pc = "returned" /\ phases # <<>>) =>
       \A e \in rows :
         (e.event_type \in {EventTCPEnd, EventUDPEnd}
            /\ e.timestamp < args.olderThan) =>
           \E s \in rows : /\ s.event_type = StartTypeOf(e.event_type)
                            /\ SameFlowKey(s, e)
                            /\ s.timestamp < e.timestamp

\* The HOURLY rows the summary step of this command has written, and the
\* rows of a bucket that were older than the cutoff when the step began.
Summaries == {s \in rows \ phaseStart : s.event_type = EventHourlySummary}
OldRows(h) ==
  {r \in InBucket(phaseStart, h) : /\ r.event_type # EventHourlySummary
                                   /\ r.timestamp < args.olderThan}
SummaryDone == pc = "done" /\ args.hourlySummary /\ ~ args.dryRun

\* C32: the hourly summary deletes and counts only rows older than the
\* cutoff.  When CreateHourlySummary(older_than) has returned, every
\* non-HOURLY row that was in the table with timestamp >= older_than when
\* it was called is still there, and the event_count of every HOURLY row
\* it wrote counts no more than the rows of its bucket that were older
\* than the cutoff.
C32_SummaryOnlyBeforeCutoff ==
  SummaryDone =>
    /\ \A r \in phaseStart :
         (r.event_type # EventHourlySummary
            /\ r.timestamp >= args.olderThan) => r \in rows
    /\ \A s \in Summaries :
         s.event_count <= Cardinality(OldRows(Bucket(s)))

\* The rows the summary step has deleted from the bucket h.
DeletedFrom(h) == InBucket(phaseStart, h) \ rows

\* C33: hourly summaries conserve row counts.  When the summary step has
\* returned, the event_count of every HOURLY row it wrote is the number of
\* rows it deleted from that row's (hour, interface, ip_version) bucket,
\* whatever the event types in the bucket.
C33_SummaryConservesCounts ==
  SummaryDone =>
    \A s \in Summaries : s.event_count = Cardinality(DeletedFrom(Bucket(s)))

\* C34: whatever appends and compact commands with --hourly-summary have
\* run, the table holds at most one HOURLY row per (hour, interface,
\* ip_version) bucket.
C34_OneSummaryPerBucket ==
  \A a, b \in rows :
    (a.event_type = EventHourlySummary /\ b.event_type = EventHourlySummary
       /\ Bucket(a) = Bucket(b)) => a = b

\* ---- the watcher
\* C12: the store is closed only after every sniffInterface goroutine has
\* stopped reading and the session manager has emitted its closing events,
\* and nothing calls into the session manager or the store after that.
C12_StoreClosedLast ==
  dbClosed =>
    /\ \A i \in Interfaces : sniffers[i] = "returned"
    /\ smStopped
    /\ lateCalls = 0

\* The events that end a TCP flow.
TCPEnds == {EventTCPEnd, EventTimeout}

\* The events emitted for the TCP flow-key of an interface.
TCPLog(i) == emitted[<<i, "tcp">>]

\* The flow has a TCP_START that no TCP_END or TIMEOUT follows.
HasOpenStart(log) ==
  \E a \in 1..Len(log) :
    /\ log[a].event_type = EventTCPStart
    /\ \A c \in (a + 1)..Len(log) : log[c].event_type \notin TCPEnds

\* C18: a TCP flow-key has one TCP_START at a time: between two of its
\* TCP_START events there is a TCP_END or a TIMEOUT, and the flow is in
\* tcp_flows exactly when its last TCP_START has not been followed by one.
C18_OneStartPerLiveFlow ==
  \A i \in Interfaces :
    /\ \A a, b \in 1..Len(TCPLog(i)) :
         (/\ a < b
          /\ TCPLog(i)[a].event_type = EventTCPStart
          /\ TCPLog(i)[b].event_type = EventTCPStart) =>
           \E c \in (a + 1)..(b - 1) : TCPLog(i)[c].event_type \in TCPEnds
    /\ tcp_flows[i].known <=> HasOpenStart(TCPLog(i))

\* A flow was opened, ended and opened again by a later SYN.
C18_Witness ==
  \E i \in Interfaces :
    /\ Len(TCPLog(i)) = 3
    /\ TCPLog(i)[1].event_type = EventTCPStart
    /\ TCPLog(i)[2].event_type \in TCPEnds
    /\ TCPLog(i)[3].event_type = EventTCPStart
    /\ tcp_flows[i].known

\* The events that open and that end a flow, and those in between.
Starts == {EventTCPStart, EventUDPStart}
Ends == {EventTCPEnd, EventTimeout, EventUDPEnd}
Intermediates == {EventTLSSNI, EventDNS}

\* C19: in the events of one flow-key, START comes before the intermediate
\* events and these before END or TIMEOUT: an END or TIMEOUT follows a
\* START of its own, and no TLS_SNI or DNS event follows an END or TIMEOUT
\* without a new START between the two.
C19_PerFlowOrder ==
  \A k \in FlowKeys :
    \A j \in 1..Len(emitted[k]) :
      /\ emitted[k][j].event_type \in Ends =>
           \E a \in 1..(j - 1) :
             /\ emitted[k][a].event_type \in Starts
             /\ \A c \in (a + 1)..(j - 1) :
                  emitted[k][c].event_type \notin Ends
      /\ emitted[k][j].event_type \in Intermediates =>
           \A a \in 1..(j - 1) :
             emitted[k][a].event_type \in Ends =>
               \E b \in (a + 1)..(j - 1) :
                 emitted[k][b].event_type \in Starts

\* The a-th event of the log belongs to a flow that is open: a TCP_START
\* precedes it with no TCP_END or TIMEOUT between the two.
InOpenFlow(log, a) ==
  \E st \in 1..(a - 1) :
    /\ log[st].event_type = EventTCPStart
    /\ \A c \in (st + 1)..(a - 1) : log[c].event_type \notin TCPEnds

PathCalls ==
  [TCP |-> {<<"TrackTCP">>, <<"TrackTCP", "TrackTLSHandshake">>},
   UDP |-> {<<"TrackUDP">>, <<"TrackUDP", "TrackDNS">>},
   ICMPv4 |-> {<<"TrackICMP">>},
   ICMPv6 |-> {<<"TrackICMP">>}]

\* The capture loop is at its select again after a frame.
LoopContinues == [][SniffPacket => sniffers' = sniffers]_vars

\* C27 as stated: a frame with an error layer makes no call into the
\* session manager and the loop goes on; a well-formed frame takes exactly
\* one of the TCP, UDP, ICMPv4 and ICMPv6 paths, or none when it has
\* neither an IPv4 nor an IPv6 layer.
C27_ExactlyOnePath ==
  /\ [](lastFrame.handled =>
          IF lastFrame.err \/ lastFrame.ip \notin {"IPv4", "IPv6"}
          THEN lastFrame.calls = <<>>
          ELSE \E path \in DOMAIN PathCalls :
                 lastFrame.calls \in PathCalls[path])
  /\ LoopContinues

\* C27, amended: a frame with an error layer makes no call into the
\* session manager and the loop goes on; a well-formed frame with an IPv4
\* or IPv6 layer and a TCP, UDP, ICMPv4 or ICMPv6 layer takes the path of
\* that layer and no other; every other frame takes none.
C27_AtMostOnePath ==
  /\ [](lastFrame.handled =>
          IF /\ ~lastFrame.err
             /\ lastFrame.ip \in {"IPv4", "IPv6"}
             /\ lastFrame.layer \in DOMAIN PathCalls
          THEN lastFrame.calls \in PathCalls[lastFrame.layer]
          ELSE lastFrame.calls = <<>>)
  /\ LoopContinues

\* A frame was dispatched to the session manager, and the frame after it
\* had an error layer and was dropped; the sniffers are still running.
C27_Witness ==
  /\ lastFrame.handled /\ lastFrame.err /\ lastFrame.calls = <<>>
  /\ packets = 1
  /\ \E i \in Interfaces : Len(emitted[<<i, "icmp">>]) = 1
  /\ \A i \in Interfaces : sniffers[i] = "running"

\* Every capture task and every drop monitor has returned, and so has Run.
AllReturned ==
  /\ \A i \in Interfaces : sniffers[i] = "returned" /\ monitors[i] = "returned"
  /\ runPc = "returned"

\* C28: once the context is cancelled, every sniffInterface goroutine and
\* every monitorDrops goroutine returns and Watcher.Run returns, whether
\* or not frames keep arriving.
C28_CancellationTerminates == ctxDone ~> AllReturned

\* Everything has returned, and a frame was still dispatched to the
\* session manager after the cancellation (after the store was closed).
C28_Witness == AllReturned /\ lateCalls > 0 /\ lastFrame.handled

\* What a walk of the sweeper at time t is to do with a flow f of the given
\* idle threshold, whose events were log before the walk and are log2
\* after it, and which is f2 after it.
SweptRight(f, f2, log, log2, threshold, removal, t) ==
  IF f.known /\ t - f.last_seen > threshold
  THEN /\ ~f2.known
       /\ Len(log2) = Len(log) + 1
       /\ SubSeq(log2, 1, Len(log)) = log
       /\ log2[Len(log2)].event_type = removal.event_type
       /\ log2[Len(log2)].reason = removal.reason
  ELSE f2 = f /\ log2 = log

\* C20: a walk of the sweeper removes every flow whose last_seen is more
\* than its idle threshold ago (120 s for TCP, 30 s for UDP) and emits one
\* event for it, TIMEOUT with reason TIMEOUT for TCP and UDP_END for UDP;
\* it leaves every other flow and its events alone; and no flow-key has
\* two END or TIMEOUT events without a START between them.
C20_SweeperRemovesIdleFlows ==
  /\ [][SessionManagerSweep =>
          \A i \in Interfaces :
            /\ SweptRight(tcp_flows[i], tcp_flows'[i], emitted[<<i, "tcp">>],
                          emitted'[<<i, "tcp">>], 120 * 1000,
                          [event_type |-> EventTimeout, reason |-> "TIMEOUT"],
                          wnow)
            /\ SweptRight(udp_flows[i], udp_flows'[i], emitted[<<i, "udp">>],
                          emitted'[<<i, "udp">>], 30 * 1000,
                          [event_type |-> EventUDPEnd, reason |-> ""],
                          wnow)]_vars
  /\ [](\A k \in FlowKeys :
          \A a, b \in 1..Len(emitted[k]) :
            (/\ a < b
             /\ emitted[k][a].event_type \in Ends
             /\ emitted[k][b].event_type \in Ends) =>
              \E c \in (a + 1)..(b - 1) : emitted[k][c].event_type \in Starts)

\* The sweeper has removed an idle TCP flow with a TIMEOUT and left a flow
\* that was not idle in its map.
C20_Witness ==
  /\ ~smStopped
  /\ \E i \in Interfaces :
       /\ ~tcp_flows[i].known
       /\ Len(TCPLog(i)) >= 2
       /\ TCPLog(i)[Len(TCPLog(i))] =
            [event_type |-> EventTimeout, reason |-> "TIMEOUT",
             persisted |-> TRUE]
  /\ \E j \in Interfaces : tcp_flows[j].known \/ udp_flows[j].known

\* ---- the legacy DNS pipeline
\* The events of a sequence of channel entries, of dns_events rows.
Queued == {eventChan[i] : i \in 1..Len(eventChan)}
Persisted == {dnsEvents[i].timestamp : i \in 1..Len(dnsEvents)}

\* C11: when more events arrive than the channel holds and the writer has
\* taken none, the events dropped are the oldest ones: every dropped event
\* was captured before every event the channel keeps for the writer.
C11_DropsOldest ==
  (received = 0 /\ droppedEvents # {}) =>
    \A d \in droppedEvents : \A e \in Queued : d < e

\* C13: on its way out Serve inserts what is left in its batch exactly once
\* (and issues no insert for an empty batch), and no event is ever in
\* dns_events twice.
C13_FinalFlushOnce ==
  /\ servePc = "loop" => finalFlushes = 0
  /\ servePc = "returned" => finalFlushes = (IF batch = <<>> THEN 0 ELSE 1)
  /\ \A i, j \in 1..Len(dnsEvents) :
       dnsEvents[i].timestamp = dnsEvents[j].timestamp => i = j

\* Serve has returned after a last insert that followed an earlier one of
\* the loop, and both are in the table.
C13_Witness ==
  /\ servePc = "returned"
  /\ finalFlushes = 1
  /\ {batch[i] : i \in 1..Len(batch)} \subseteq Persisted
  /\ Len(dnsEvents) > Len(batch)

\* C26: a failed batch insert of the writer loop costs that batch and nothing
\* else.  The loop drops the whole batch and goes on (the slice is empty and
\* Serve is still in its loop after the step); no event of a failed batch
\* is in a later batch or is written by a later flush; and a later insert
\* that succeeds writes exactly the events batched since, in their order.
LoopFlush == servePc = "loop" /\ servePc' = "loop" /\ dnsEvents' # dnsEvents
LoopFailure ==
  servePc = "loop" /\ servePc' = "loop" /\ failedEvents' # failedEvents
FlushedBatch ==
  IF received' = received THEN batch ELSE Append(batch, Head(eventChan))
FlushedEvents == {FlushedBatch[i] : i \in 1..Len(FlushedBatch)}
FailureDropsBatch ==
  LoopFailure =>
    /\ batch' = <<>>
    /\ dnsEvents' = dnsEvents
    /\ failedEvents' = failedEvents \cup FlushedEvents
FlushWritesBatch ==
  LoopFlush =>
    /\ batch' = <<>>
    /\ failedEvents' = failedEvents
    /\ dnsEvents' =
         dnsEvents \o
           [i \in 1..Len(FlushedBatch) |-> DNSBatchEvent(FlushedBatch[i])]
C26_FailedBatchIsolated ==
  /\ [](/\ failedEvents \cap Persisted = {}
        /\ servePc = "loop" =>
             failedEvents \cap {batch[i] : i \in 1..Len(batch)} = {})
  /\ [][FailureDropsBatch /\ FlushWritesBatch]_vars

\* The loop lost a batch, went on, and wrote events it received after it.
C26_Witness ==
  /\ servePc = "loop"
  /\ failedEvents # {}
  /\ \E f \in failedEvents : \E e \in Persisted : f < e
  /\ batch # <<>>

\* The events processPackets has put on the event channel so far.
Enqueued == ((1..captured) \ droppedEvents) \ {inFlight}

\* C35: no accepted event is lost at shutdown.  When Serve handles the
\* shutdown signal and returns, no insert having failed, every event that
\* was put on the event channel before that step is in dns_events after
\* it (the deferred Stop and db.Close run as Serve returns).
C35_NoAcceptedEventLost ==
  [][(servePc = "loop" /\ servePc' = "returned" /\ failedEvents' = {}) =>
       Enqueued \subseteq {dnsEvents'[i].timestamp : i \in 1..Len(dnsEvents')}
    ]_vars

\* C16: DNSSniffer.Stop can be called any number of times without a fault.
C16_StopIsIdempotent == stopCalls >= 1 => fault # "close of closed channel"

\* C36: processPackets never sends on the event channel after Stop has
\* closed it: in no interleaving of Stop with processPackets does a send
\* find the channel closed.
C36_NoSendAfterClose == fault # "send on closed channel"

\* ---- the event publisher
\* C14: PublishEvent never waits: its select can always run.  A call made
\* with no publisher set leaves every queue as it was; a call changes no
\* queue but that of the publisher set last; a call that finds the queue
\* full drops the event and leaves the queue as it was, and a call that
\* queues the event appends it.
C14_PublishNeverBlocks ==
  /\ ppc = "select" => ENABLED HubPublishEventSelect
  /\ lastCall.pub = "nil" =>
       (lastCall.outcome \in {"", "no publisher"}
          /\ lastCall.after = lastCall.before)
  /\ \A h \in Hubs :
       /\ lastCall.pub # h => lastCall.after[h] = lastCall.before[h]
       /\ (lastCall.pub = h /\ Len(lastCall.before[h]) = BroadcastCap) =>
            (lastCall.outcome # "queued" /\ lastCall.after = lastCall.before)
       /\ (lastCall.pub = h /\ lastCall.outcome = "queued") =>
            lastCall.after[h] = Append(lastCall.before[h], lastCall.data)

\* A call was dispatched to the second hub registered and found its queue
\* full while the queue of the hub registered before it had room.
C14_Witness ==
  /\ lastCall.outcome = "dropped"
  /\ lastCall.after[lastCall.pub] = broadcast[lastCall.pub]
  /\ \E h \in Hubs : h # lastCall.pub /\ Len(broadcast[h]) = 1

\* ---- the hub and its clients
\* C37: in every interleaving of register, unregister and broadcast each
\* client's send channel is closed at most once and is never sent on (or
\* closed) after it was closed, and a broadcast that is over was sent to
\* every client that had room in its buffer when the broadcast began,
\* whichever clients it evicted.
C37_SendClosedOnce ==
  /\ \A c \in WsClients : sendCloses[c] <= 1
  /\ hubFault = ""
  /\ hubPc = "select" => roomy \subseteq got

\* A broadcast evicted one client for a full buffer and reached the other;
\* the evicted client's readPump has since unregistered it, and its channel
\* was closed once.
C37_Witness ==
  /\ hubPc = "select"
  /\ \E c, d \in WsClients :
       /\ c # d
       /\ pump[c] = "done"
       /\ sendCloses[c] = 1
       /\ lastWrite.lock = "RLock"
       /\ c \notin hubClients
       /\ d \in got
       /\ d \in hubClients

\* C38: Hub.clients is mutated only while the write lock is held: at the
\* last insert into or delete from the map Hub.Run held h.mutex.Lock(), and
\* no caller of ClientCount was holding the read lock.
C38_MapWrittenUnderWriteLock ==
  /\ lastWrite.lock \in {"", "Lock"}
  /\ lastWrite.readers = {}

\* ---- the command line of compact
\* C15: a compact command whose --older-than or --dedupe-window is not a
\* duration returns an error and leaves the table as it found it.
C15_InvalidDurationRefused ==
  (pc # "idle" /\ ~flagsValid) => (cmdErr # "" /\ rows = runStart)
====
